---- MODULE Spec2Model ----
(***************************************************************************)
(* A model of py_cui's layout-and-viewport core: the container's           *)
(* focus/hover state machine driven by the main loop (PyCUI._draw,         *)
(* GridLayout, Layout), the list viewport model (MenuImplementation,       *)
(* ScrollMenu) and the multi-line text model (TextBlockImplementation,     *)
(* ScrollTextBlock).                                                       *)
(*                                                                         *)
(* Methods that mutate an object are operators from a record of the        *)
(* object's fields to the record after the call.  A record's field err     *)
(* names the Python exception a call raised ("" when none); the fields     *)
(* keep whatever the method had assigned before it raised.                 *)
(***************************************************************************)
EXTENDS Integers, Sequences, FiniteSets, TLC

\* ------------------------------------------------------------------ bounds
NumRows == 3
NumCols == 2
MaxWidgets == 3

\* Python's None where an integer (a widget id) is expected.
None == 0 - 1

\* Terminal sizes (lines, columns) the start and the resize events read; the
\* last is too small for the grid.
TermSizes == { <<16, 9>>, <<17, 12>>, <<12, 7>> }

\* The terminal size PyCUI.__init__ reads.
InitSize == <<16, 9>>

\* Screen positions (x, y) of the mouse clicks.
ClickPoints == { <<0, 0>>, <<1, 3>>, <<5, 3>>, <<1, 8>> }

\* (row, column, row_span, column_span, selectable, snap_border) of the widgets
\* the host constructs.  The last one does not fit a NumRows x NumCols grid.
Placements ==
  { <<0, 0, 1, 1, TRUE, FALSE>>,
    <<0, 1, 2, 1, FALSE, TRUE>>,
    <<1, 0, 2, 1, TRUE, TRUE>>,
    <<2, 1, 1, 2, TRUE, FALSE>> }

\* ---------------------------------------------------------------- helpers
Min(a, b) == IF a < b THEN a ELSE b
Max(a, b) == IF a > b THEN a ELSE b

\* seq[i] with Python's 0-based index, a negative index counting from the end.
PyIndex(seq, i) == IF i < 0 THEN seq[Len(seq) + i + 1] ELSE seq[i + 1]

\* Position of x in seq (0-based), None when absent: list.index.
RECURSIVE IndexFrom(_, _, _)
IndexFrom(seq, x, i) ==
  IF i > Len(seq) THEN None
  ELSE IF seq[i] = x THEN i - 1
  ELSE IndexFrom(seq, x, i + 1)

IndexOf(seq, x) == IndexFrom(seq, x, 1)

\* Run F on L unless an exception is already propagating.
Then(L, F(_)) == IF L.err # "" THEN L ELSE F(L)

Raise(L, e) == [L EXCEPT !.err = e]

\* --------------------------------------------------------------- key codes
KEY_UP_ARROW == "KEY_UP_ARROW"
KEY_DOWN_ARROW == "KEY_DOWN_ARROW"
KEY_LEFT_ARROW == "KEY_LEFT_ARROW"
KEY_RIGHT_ARROW == "KEY_RIGHT_ARROW"
KEY_ENTER == "KEY_ENTER"
KEY_ESCAPE == "KEY_ESCAPE"
KEY_CTRL_LEFT == "KEY_CTRL_LEFT"
KEY_CTRL_RIGHT == "KEY_CTRL_RIGHT"
KEY_Q_LOWER == "KEY_Q_LOWER"
KEY_A_LOWER == "KEY_A_LOWER"
KEY_MOUSE == "KEY_MOUSE"
KEY_RESIZE == "KEY_RESIZE"
KEY_NONE == "0"

ARROW_KEYS == { KEY_UP_ARROW, KEY_DOWN_ARROW, KEY_LEFT_ARROW, KEY_RIGHT_ARROW }

exit_key == KEY_Q_LOWER
forward_cycle_key == KEY_CTRL_LEFT
reverse_cycle_key == KEY_CTRL_RIGHT

\* The keys getch() returns in the model.
Keys ==
  ARROW_KEYS \cup { KEY_ENTER, KEY_ESCAPE, KEY_CTRL_LEFT, KEY_CTRL_RIGHT,
                    KEY_Q_LOWER, KEY_A_LOWER, KEY_MOUSE, KEY_RESIZE }

\* PyCUI's paddings.
top_padding == 1
bottom_padding == 1
left_padding == 0
right_padding == 0

VARIABLES
  ids,               \* keys of Layout._widgets, in insertion order
  widgets,           \* Layout._widgets: id -> the widget and its placement
  selected_widget,   \* Layout._selected_widget
  in_focused_mode,   \* Layout._in_focused_mode
  height, width,     \* Layout._height, Layout._width
  row_height, col_width, offset_x, offset_y,   \* GridLayout geometry
  gui_height, gui_width,                       \* PyCUI._height, PyCUI._width
  loop,              \* "init", "running", "exited" or "crashed"
  err,               \* the exception that ended the loop, "" when none
  warned,            \* _display_window_warning ran in the last iteration
  delivered,         \* <<widget id, key>> or <<widget id, x, y>>: what the last loop pass handed to a widget's handler
  ctor_err           \* the exception the last widget constructor raised, "" when none

focusVars ==
  << ids, widgets, selected_widget, in_focused_mode, height, width,
     row_height, col_width, offset_x, offset_y, gui_height, gui_width,
     loop, err, warned, delivered, ctor_err >>


\* The container and the gui as one record, for the operators below.
Container ==
  [ ids |-> ids, widgets |-> widgets, selected_widget |-> selected_widget,
    in_focused_mode |-> in_focused_mode, height |-> height, width |-> width,
    row_height |-> row_height, col_width |-> col_width,
    offset_x |-> offset_x, offset_y |-> offset_y,
    gui_height |-> gui_height, gui_width |-> gui_width,
    err |-> "", warned |-> FALSE, delivered |-> << >> ]

\* ------------------------------------------------------------ UIElement
\* UIElement.__init__ and Widget.__init__: a widget as constructed.
NewWidget(id, p) ==
  [ id |-> id, row |-> p[1], col |-> p[2], row_span |-> p[3], col_span |-> p[4],
    selectable |-> p[5], snap_border |-> p[6],
    hovering |-> FALSE, focused |-> FALSE,
    start_x |-> 0, start_y |-> 0, stop_x |-> 0, stop_y |-> 0,
    w_height |-> 0, w_width |-> 0 ]

\* Widget.__init__ without its bounds check.
FitsGridUnchecked(p) == TRUE

\* Widget.__init__ raises PyCUIOutOfBoundsError for a span outside the grid.
FitsGrid(p) == ~ (NumCols < p[2] + p[4] \/ NumRows < p[1] + p[3])

\* The flag setters of the widget base class.
set_hovering(L, id, v) == [L EXCEPT !.widgets[id].hovering = v]

set_focused(L, id, v) == [L EXCEPT !.widgets[id].focused = v]

is_focused(L, id) == L.widgets[id].focused

\* UIElement.update_height_width: the stored size is stop - start.
update_size(w) ==
  [w EXCEPT !.w_height = w.stop_y - w.start_y, !.w_width = w.stop_x - w.start_x]

\* UIElement._contains_position
contains_position(w, x, y) ==
  /\ w.start_x <= x /\ w.start_x + w.w_width >= x
  /\ w.start_y <= y /\ w.start_y + w.w_height >= y

\* The widget's own key handler; the model records the delivery.
widget_handle_key_press(L, id, key) == [L EXCEPT !.delivered = <<id, key>>]

\* The widget's own mouse handler; the model records the delivery.
widget_handle_mouse_press(L, id, x, y) == [L EXCEPT !.delivered = <<id, x, y>>]

\* ---------------------------------------------------------------- Layout
\* self._widgets[self._selected_widget] raises KeyError when nothing is selected.
HasSelected(L) == L.selected_widget \in DOMAIN L.widgets

\* Layout.lose_focus
lose_focus(L) ==
  LET L1 == [L EXCEPT !.in_focused_mode = FALSE]
  IN IF ~ HasSelected(L1) THEN Raise(L1, "KeyError")
     ELSE set_hovering(set_focused(L1, L1.selected_widget, FALSE),
                       L1.selected_widget, TRUE)

\* Layout.set_focus without the switch to focused mode.
set_focus_without_mode(L, id) ==
  LET L1 == lose_focus(L)
      L2 == [L1 EXCEPT !.selected_widget = id]
  IN IF L1.err # "" THEN L1 ELSE set_focused(L2, id, TRUE)

\* Layout.set_focus
set_focus(L, id) ==
  LET L1 == lose_focus(L)
      L2 == [L1 EXCEPT !.selected_widget = id]
      L3 == set_focused(L2, id, TRUE)
  IN IF L1.err # "" THEN L1 ELSE [L3 EXCEPT !.in_focused_mode = TRUE]

\* Layout.set_hover
set_hover(L, id) ==
  LET L1 == IF L.selected_widget # None
            THEN set_hovering(L, L.selected_widget, FALSE) ELSE L
      L2 == [L1 EXCEPT !.selected_widget = id]
  IN set_hovering(L2, id, TRUE)

\* Layout._cycle_widgets stopping at the last widget, without the wrap to 0.
cycle_widgets_without_wrap(L, reverse) ==
  LET pos0 == IndexOf(L.ids, L.selected_widget)
      pos1 == pos0 + (IF ~ reverse THEN 1 ELSE 0 - 1)
      pos == IF pos1 >= Len(L.ids) THEN Len(L.ids) - 1 ELSE pos1
  IN IF pos0 = None THEN Raise(L, "ValueError")
     ELSE set_hover(L, PyIndex(L.ids, pos))

\* Layout._cycle_widgets
cycle_widgets(L, reverse) ==
  LET pos0 == IndexOf(L.ids, L.selected_widget)
      pos1 == pos0 + (IF ~ reverse THEN 1 ELSE 0 - 1)
      pos == IF pos1 >= Len(L.ids) THEN 0 ELSE pos1
  IN IF pos0 = None THEN Raise(L, "ValueError")
     ELSE set_hover(L, PyIndex(L.ids, pos))

\* Layout.get_element_at_position: the first widget, in insertion order, that
\* holds (x, y); None when there is none.
RECURSIVE ElementFrom(_, _, _, _)
ElementFrom(L, x, y, i) ==
  IF i > Len(L.ids) THEN None
  ELSE IF contains_position(L.widgets[L.ids[i]], x, y) THEN L.ids[i]
  ELSE ElementFrom(L, x, y, i + 1)

get_element_at_position(L, x, y) == ElementFrom(L, x, y, 1)

\* GridLayout._is_row_col_inside looking at the row only.
is_row_inside(L, id, r, c) ==
  LET w == L.widgets[id]
  IN w.row <= r /\ r < w.row + w.row_span

\* ------------------------------------------------------------ GridLayout
\* GridLayout._is_row_col_inside
is_row_col_inside(L, id, r, c) ==
  LET w == L.widgets[id]
  IN w.row <= r /\ r < w.row + w.row_span /\ w.col <= c /\ c < w.col + w.col_span

\* for id in self._widgets.keys(): if self._is_row_col_inside(id, r, c): return id
RECURSIVE FirstInside(_, _, _, _)
FirstInside(L, r, c, i) ==
  IF i > Len(L.ids) THEN None
  ELSE IF is_row_col_inside(L, L.ids[i], r, c) THEN L.ids[i]
  ELSE FirstInside(L, r, c, i + 1)

\* The inner loop of _get_vertical_neighbor: for c in range(col, col + col_span).
RECURSIVE ScanRow(_, _, _, _)
ScanRow(L, r, c, cEnd) ==
  IF c >= cEnd THEN None
  ELSE LET id == FirstInside(L, r, c, 1)
       IN IF id # None THEN id ELSE ScanRow(L, r, c + 1, cEnd)

\* The inner loop of _get_horizontal_neighbor: for r in range(row, row + row_span).
RECURSIVE ScanCol(_, _, _, _)
ScanCol(L, c, r, rEnd) ==
  IF r >= rEnd THEN None
  ELSE LET id == FirstInside(L, r, c, 1)
       IN IF id # None THEN id ELSE ScanCol(L, c, r + 1, rEnd)

\* for r in range(start, end, step) of _get_vertical_neighbor.
RECURSIVE VerticalFrom(_, _, _, _, _, _)
VerticalFrom(L, r, end, step, col, col_span) ==
  IF (step > 0 /\ r >= end) \/ (step < 0 /\ r <= end) THEN None
  ELSE LET id == ScanRow(L, r, col, col + col_span)
       IN IF id # None THEN id
          ELSE VerticalFrom(L, r + step, end, step, col, col_span)

\* for c in range(start, end, step) of _get_horizontal_neighbor.
RECURSIVE HorizontalFrom(_, _, _, _, _, _)
HorizontalFrom(L, c, end, step, row, row_span) ==
  IF (step > 0 /\ c >= end) \/ (step < 0 /\ c <= end) THEN None
  ELSE LET id == ScanCol(L, c, row, row + row_span)
       IN IF id # None THEN id
          ELSE HorizontalFrom(L, c + step, end, step, row, row_span)

\* GridLayout._get_vertical_neighbor scanning the whole column, so that the
\* search wraps to the opposite edge.
get_vertical_neighbor_wrapping(L, row, col, row_span, col_span, direction) ==
  IF direction = KEY_UP_ARROW
  THEN VerticalFrom(L, NumRows - 1, 0 - 1, 0 - 1, col, col_span)
  ELSE VerticalFrom(L, 0, NumRows, 1, col, col_span)

\* GridLayout._get_vertical_neighbor
get_vertical_neighbor(L, row, col, row_span, col_span, direction) ==
  IF direction = KEY_UP_ARROW
  THEN VerticalFrom(L, row - 1, 0 - 1, 0 - 1, col, col_span)
  ELSE VerticalFrom(L, row + row_span, NumRows, 1, col, col_span)

\* GridLayout._get_horizontal_neighbor with the two directions exchanged.
get_horizontal_neighbor_mirrored(L, row, col, row_span, col_span, direction) ==
  IF direction = KEY_RIGHT_ARROW
  THEN HorizontalFrom(L, col - 1, 0 - 1, 0 - 1, row, row_span)
  ELSE HorizontalFrom(L, col + col_span, NumCols, 1, row, row_span)

\* GridLayout._get_horizontal_neighbor
get_horizontal_neighbor(L, row, col, row_span, col_span, direction) ==
  IF direction = KEY_LEFT_ARROW
  THEN HorizontalFrom(L, col - 1, 0 - 1, 0 - 1, row, row_span)
  ELSE HorizontalFrom(L, col + col_span, NumCols, 1, row, row_span)

\* GridLayout._get_neighbor (the caller has checked that a widget is selected)
get_neighbor(L, direction) ==
  LET w == L.widgets[L.selected_widget]
  IN IF direction \in { KEY_DOWN_ARROW, KEY_UP_ARROW }
     THEN get_vertical_neighbor(L, w.row, w.col, w.row_span, w.col_span, direction)
     ELSE get_horizontal_neighbor(L, w.row, w.col, w.row_span, w.col_span, direction)

\* GridLayout._handle_key_presses
handle_key_presses(L, key_pressed) ==
  IF L.in_focused_mode
  THEN IF key_pressed = KEY_ESCAPE THEN lose_focus(L)
       ELSE IF ~ HasSelected(L) THEN Raise(L, "KeyError")
       ELSE widget_handle_key_press(L, L.selected_widget, key_pressed)
  ELSE IF ~ HasSelected(L) THEN Raise(L, "KeyError")
       ELSE IF key_pressed \in ARROW_KEYS
       THEN LET neighbor == get_neighbor(L, key_pressed)
            IN IF neighbor # None THEN set_hover(L, neighbor) ELSE L
       ELSE IF key_pressed = KEY_ENTER /\ L.widgets[L.selected_widget].selectable
       THEN set_focus(L, L.selected_widget)
       ELSE widget_handle_key_press(L, L.selected_widget, key_pressed)

\* The placement of _refresh_height_width with start_y on the row above.
place_widget_on_title_row(L, w) ==
  LET this_offset_x == IF w.col = 0 /\ w.snap_border THEN 0 ELSE L.offset_x
      this_offset_y == IF w.row = 0 /\ w.snap_border THEN 0 ELSE L.offset_y
      sx == w.col * L.col_width + left_padding + this_offset_x
      sy == w.row * L.row_height + top_padding + this_offset_y
      ex == IF w.col + w.col_span = NumCols /\ w.snap_border
            THEN L.width + left_padding - 1
            ELSE w.col * L.col_width + L.offset_x + left_padding
                   + L.col_width * w.col_span - 1
      ey == IF w.row + w.row_span = NumRows /\ w.snap_border
            THEN L.height + top_padding
            ELSE w.row * L.row_height + L.offset_y + top_padding
                   + L.row_height * w.row_span
  IN update_size([w EXCEPT !.start_x = sx, !.start_y = sy,
                           !.stop_x = ex, !.stop_y = ey])

\* The placement of _refresh_height_width with stop_x one column further right.
place_widget_wider(L, w) ==
  LET this_offset_x == IF w.col = 0 /\ w.snap_border THEN 0 ELSE L.offset_x
      this_offset_y == IF w.row = 0 /\ w.snap_border THEN 0 ELSE L.offset_y
      sx == w.col * L.col_width + left_padding + this_offset_x
      sy == w.row * L.row_height + top_padding + 1 + this_offset_y
      ex == IF w.col + w.col_span = NumCols /\ w.snap_border
            THEN L.width + left_padding - 1
            ELSE w.col * L.col_width + L.offset_x + left_padding
                   + L.col_width * w.col_span
      ey == IF w.row + w.row_span = NumRows /\ w.snap_border
            THEN L.height + top_padding
            ELSE w.row * L.row_height + L.offset_y + top_padding
                   + L.row_height * w.row_span
  IN update_size([w EXCEPT !.start_x = sx, !.start_y = sy,
                           !.stop_x = ex, !.stop_y = ey])

\* The bounds GridLayout._refresh_height_width stores in one widget.
place_widget(L, w) ==
  LET this_offset_x == IF w.col = 0 /\ w.snap_border THEN 0 ELSE L.offset_x
      this_offset_y == IF w.row = 0 /\ w.snap_border THEN 0 ELSE L.offset_y
      sx == w.col * L.col_width + left_padding + this_offset_x
      sy == w.row * L.row_height + top_padding + 1 + this_offset_y
      ex == IF w.col + w.col_span = NumCols /\ w.snap_border
            THEN L.width + left_padding - 1
            ELSE w.col * L.col_width + L.offset_x + left_padding
                   + L.col_width * w.col_span - 1
      ey == IF w.row + w.row_span = NumRows /\ w.snap_border
            THEN L.height + top_padding
            ELSE w.row * L.row_height + L.offset_y + top_padding
                   + L.row_height * w.row_span
  IN update_size([w EXCEPT !.start_x = sx, !.start_y = sy,
                           !.stop_x = ex, !.stop_y = ey])

\* _refresh_height_width placing the widgets before it checks the size.
layout_refresh_height_width_placing_first(L, h, w) ==
  LET L1 == [L EXCEPT !.height = h, !.width = w]
      rh == h \div NumRows
      cw == w \div NumCols
      L2 == [L1 EXCEPT !.row_height = rh, !.col_width = cw,
                       !.offset_x = (w % cw) \div 2,
                       !.offset_y = (h % rh) \div 2]
      L3 == [L2 EXCEPT !.widgets =
               [id \in DOMAIN L2.widgets |-> place_widget(L2, L2.widgets[id])]]
  IN IF 3 * NumCols >= w THEN Raise(L3, "PyCUIOutOfBoundsError")
     ELSE IF 3 * NumRows >= h THEN Raise(L3, "PyCUIOutOfBoundsError")
     ELSE L3

\* GridLayout._refresh_height_width
layout_refresh_height_width(L, h, w) ==
  LET L1 == [L EXCEPT !.height = h, !.width = w]
      rh == h \div NumRows
      cw == w \div NumCols
      L2 == [L1 EXCEPT !.row_height = rh, !.col_width = cw,
                       !.offset_x = (w % cw) \div 2,
                       !.offset_y = (h % rh) \div 2]
  IN IF 3 * NumCols >= w THEN Raise(L1, "PyCUIOutOfBoundsError")
     ELSE IF 3 * NumRows >= h THEN Raise(L1, "PyCUIOutOfBoundsError")
     ELSE [L2 EXCEPT !.widgets =
             [id \in DOMAIN L2.widgets |-> place_widget(L2, L2.widgets[id])]]

\* GridLayout.add_widget hovering the first widget added, selectable or not.
add_widget_any_first(L, w) ==
  LET L1 == [L EXCEPT
               !.ids = IF w.id \in DOMAIN L.widgets THEN @ ELSE Append(@, w.id),
               !.widgets = [id \in DOMAIN L.widgets \cup {w.id} |->
                              IF id = w.id THEN w ELSE L.widgets[id]]]
  IN IF L1.selected_widget = None THEN set_hover(L1, w.id) ELSE L1

\* GridLayout.add_widget
add_widget(L, w) ==
  LET L1 == [L EXCEPT
               !.ids = IF w.id \in DOMAIN L.widgets THEN @ ELSE Append(@, w.id),
               !.widgets = [id \in DOMAIN L.widgets \cup {w.id} |->
                              IF id = w.id THEN w ELSE L.widgets[id]]]
  IN IF L1.selected_widget = None /\ w.selectable THEN set_hover(L1, w.id) ELSE L1

\* Layout.get_next_id
get_next_id(L) == Len(L.ids)


\* ----------------------------------------------------------------- PyCUI
\* PyCUI._refresh_height_width (no popup is open)
gui_refresh_height_width(L, h, w) ==
  layout_refresh_height_width(
    [L EXCEPT !.gui_height = h, !.gui_width = w],
    h - top_padding - bottom_padding - 2,
    w - left_padding - right_padding)

\* PyCUI.move_focus: it calls self._root.move_focus, which Layout and
\* GridLayout do not define.
move_focus(L, id) == Raise(L, "AttributeError")

\* The KEY_MOUSE branch of PyCUI._draw
handle_mouse(L, x, y) ==
  LET in_element == get_element_at_position(L, x, y)
  IN IF in_element # None /\ is_focused(L, in_element)
     THEN widget_handle_mouse_press(L, in_element, x, y)
     ELSE IF in_element # None
     THEN Then(move_focus(L, in_element),
               LAMBDA M : widget_handle_mouse_press(M, in_element, x, y))
     ELSE L

\* The KEY_RESIZE branch of PyCUI._draw without its except clause.
handle_resize_uncaught(L, size) == gui_refresh_height_width(L, size[1], size[2])

\* The KEY_RESIZE branch of PyCUI._draw: a too-small terminal is caught and
\* the warning displayed.
handle_resize(L, size) ==
  LET L1 == gui_refresh_height_width(L, size[1], size[2])
  IN IF L1.err = "PyCUIOutOfBoundsError"
     THEN [L1 EXCEPT !.err = "", !.warned = TRUE]
     ELSE L1

\* The widget cycling of PyCUI._draw
handle_cycle(L, key_pressed) ==
  IF key_pressed = forward_cycle_key THEN cycle_widgets(L, FALSE)
  ELSE IF key_pressed = reverse_cycle_key THEN cycle_widgets(L, TRUE)
  ELSE L

\* One pass through the body of the main loop of PyCUI._draw.
loop_body(L, key_pressed, x, y, size) ==
  LET L1 == IF key_pressed = KEY_RESIZE THEN handle_resize(L, size)
            ELSE IF key_pressed = KEY_MOUSE THEN handle_mouse(L, x, y)
            ELSE L
      L2 == Then(L1, LAMBDA M : handle_cycle(M, key_pressed))
  IN Then(L2, LAMBDA M : handle_key_presses(M, key_pressed))

\* The loop condition of PyCUI._draw without its focus-mode disjunct.
loop_continues_ignoring_focus(L, key_pressed) == key_pressed # exit_key

\* The loop condition of PyCUI._draw (no popup is open).
loop_continues(L, key_pressed) == key_pressed # exit_key \/ L.in_focused_mode

(***************************************************************************)
(* The list viewport model: MenuImplementation and ScrollMenu.             *)
(***************************************************************************)
\* ------------------------------------------------------------------ bounds
MaxItems == 4

\* The items the host adds; each is one non-empty line of text.
Items == { "a", "b" }

\* The widget heights a resize gives the menu (its viewport shows height - 2 items).
MenuHeights == { 4, 5 }

\* The screen row of the menu's top border.
MenuStartY == 2

\* The screen rows a click on the menu can have.
MenuRows == UNION { MenuStartY .. MenuStartY + h : h \in MenuHeights }

\* The default pady of ScrollMenu.__init__
MenuPady == 0

\* MenuImplementation._page_scroll_len
page_scroll_len == 5

VARIABLES
  view_items,        \* MenuImplementation._view_items
  selected_item,     \* MenuImplementation._selected_item
  top_view,          \* MenuImplementation._top_view
  bottom_view,       \* MenuImplementation._bottom_view
  footer,            \* UIElement._footer: << >> for '', <<n, m>> for 'n/m'
  m_start_y,         \* UIElement._start_y of the menu
  m_height,          \* UIElement._height of the menu
  m_pady,            \* UIElement._pady of the menu
  m_err,             \* the exception a call on the menu raised, "" when none
  m_rendered,        \* the last call on the menu was _draw
  m_op,              \* the name of the last call on the menu, "" after __init__
  m_checkbox,        \* the list is a CheckBoxMenuImplementation
  selected_item_dict \* CheckBoxMenuImplementation._selected_item_dict

menuVars ==
  << view_items, selected_item, top_view, bottom_view, footer,
     m_start_y, m_height, m_pady, m_err, m_rendered, m_op,
     m_checkbox, selected_item_dict >>

\* The menu as one record, for the operators below.
Menu ==
  [ view_items |-> view_items, selected_item |-> selected_item,
    top_view |-> top_view, bottom_view |-> bottom_view, footer |-> footer,
    start_y |-> m_start_y, height |-> m_height, pady |-> m_pady, err |-> "",
    checkbox |-> m_checkbox, selected_item_dict |-> selected_item_dict ]

\* A dict without keys, and d[k] = v and del d[k] for a dict d.
EmptyDict == [k \in {} |-> FALSE]

DictSet(d, k, v) == [x \in DOMAIN d \cup {k} |-> IF x = k THEN v ELSE d[x]]

DictDel(d, k) == [x \in DOMAIN d \ {k} |-> d[x]]

\* del seq[i] for an index i that is in range (Python's negative index included).
DelAt(seq, i) ==
  LET k == IF i < 0 THEN Len(seq) + i + 1 ELSE i + 1
  IN SubSeq(seq, 1, k - 1) \o SubSeq(seq, k + 1, Len(seq))

\* seq[i] and del seq[i] raise IndexError outside -len .. len - 1.
InRange(seq, i) == 0 - Len(seq) <= i /\ i < Len(seq)

\* MenuImplementation.get_item_size
get_item_size(M) == Len(M.view_items)

\* UIElement.get_viewport_height
get_viewport_height(M) == M.height - (2 * M.pady) - 2

\* MenuImplementation._set_footer
menu_set_footer(M) ==
  IF get_item_size(M) > 0
  THEN [M EXCEPT !.footer = << M.selected_item + 1, get_item_size(M) >>]
  ELSE [M EXCEPT !.footer = << >>]

\* MenuImplementation.clear
menu_clear(M) ==
  [M EXCEPT !.view_items = << >>, !.selected_item = 0,
            !.top_view = 0, !.bottom_view = 0]

\* MenuImplementation.set_selected_item_index
set_selected_item_index(M, i) == [M EXCEPT !.selected_item = i]

\* MenuImplementation._scroll_up
scroll_up(M) ==
  IF M.selected_item > 0
  THEN [M EXCEPT !.top_view = IF M.selected_item = M.top_view THEN @ - 1 ELSE @,
                 !.selected_item = @ - 1]
  ELSE M

\* MenuImplementation._scroll_down
scroll_down(M) ==
  IF M.selected_item < Len(M.view_items) - 1
  THEN [M EXCEPT !.selected_item = @ + 1,
                 !.top_view = IF M.selected_item + 1 > M.bottom_view THEN @ + 1 ELSE @]
  ELSE M

\* for _ in range(n): F
RECURSIVE Repeat(_, _, _)
Repeat(F(_), n, M) == IF n <= 0 THEN M ELSE Repeat(F, n - 1, F(M))

\* MenuImplementation._page_up
menu_page_up(M) == Repeat(scroll_up, page_scroll_len, M)

\* MenuImplementation._page_down
menu_page_down(M) == Repeat(scroll_down, page_scroll_len, M)

\* MenuImplementation._jump_to_top
jump_to_top(M) == [M EXCEPT !.top_view = 0, !.selected_item = 0]

\* MenuImplementation._jump_to_bottom
jump_to_bottom(M, viewport_height) ==
  LET sel == Len(M.view_items) - 1
      top == sel - viewport_height
  IN [M EXCEPT !.selected_item = sel, !.top_view = IF top < 0 THEN 0 ELSE top]

\* MenuImplementation.add_item
add_item(M, item) ==
  menu_set_footer([M EXCEPT !.view_items = Append(@, item)])

\* remove_selected_item without the step back of the index at the end of
\* the list.
remove_selected_item_keeping_index(M) ==
  IF Len(M.view_items) = 0 THEN M
  ELSE IF ~ InRange(M.view_items, M.selected_item) THEN Raise(M, "IndexError")
  ELSE menu_set_footer([M EXCEPT !.view_items = DelAt(@, M.selected_item)])

\* MenuImplementation.remove_selected_item
remove_selected_item(M) ==
  IF Len(M.view_items) = 0 THEN M
  ELSE IF ~ InRange(M.view_items, M.selected_item) THEN Raise(M, "IndexError")
  ELSE LET items == DelAt(M.view_items, M.selected_item)
           sel == IF M.selected_item >= Len(items) /\ M.selected_item > 0
                  THEN M.selected_item - 1 ELSE M.selected_item
       IN menu_set_footer([M EXCEPT !.view_items = items, !.selected_item = sel])

\* MenuImplementation.remove_item
remove_item(M, item) ==
  LET i_index == IndexOf(M.view_items, item)
  IN IF Len(M.view_items) = 0 \/ i_index = None THEN M
     ELSE menu_set_footer(
            [M EXCEPT !.view_items = DelAt(@, i_index),
                      !.selected_item = IF @ >= i_index THEN @ - 1 ELSE @])

\* MenuImplementation.get: the selected item, None for an empty list.
menu_get(M) ==
  IF Len(M.view_items) > 0 THEN PyIndex(M.view_items, M.selected_item) ELSE None

\* CheckBoxMenuImplementation.add_item
checkbox_add_item(M, item) ==
  LET M1 == add_item(M, item)
  IN [M1 EXCEPT !.selected_item_dict = DictSet(@, item, FALSE)]

\* CheckBoxMenuImplementation.remove_selected_item: get() of an empty list is
\* None, which is never a key of the dict.
checkbox_remove_selected_item(M) ==
  IF Len(M.view_items) = 0 THEN Raise(M, "KeyError")
  ELSE IF ~ InRange(M.view_items, M.selected_item) THEN Raise(M, "IndexError")
  ELSE IF menu_get(M) \notin DOMAIN M.selected_item_dict THEN Raise(M, "KeyError")
  ELSE remove_selected_item(
         [M EXCEPT !.selected_item_dict = DictDel(@, menu_get(M))])

\* CheckBoxMenuImplementation.remove_item
checkbox_remove_item(M, item) ==
  IF item \notin DOMAIN M.selected_item_dict THEN Raise(M, "KeyError")
  ELSE remove_item([M EXCEPT !.selected_item_dict = DictDel(@, item)], item)

\* CheckBoxMenuImplementation.mark_item_as_checked
mark_item_as_checked(M, item) ==
  IF item \notin DOMAIN M.selected_item_dict THEN Raise(M, "KeyError")
  ELSE [M EXCEPT !.selected_item_dict[item] = ~ @]

\* self.remove_selected_item() as the class of the list resolves it.
self_remove_selected_item(M) ==
  IF M.checkbox THEN checkbox_remove_selected_item(M) ELSE remove_selected_item(M)

\* MenuImplementation.clear_items: the loop ends when the list is empty or a
\* call raises.
RECURSIVE clear_items(_)
clear_items(M) ==
  IF M.err # "" \/ get_item_size(M) = 0 THEN M
  ELSE clear_items(self_remove_selected_item(M))

\* ScrollMenu._handle_mouse_press
menu_handle_mouse_press(M, x, y) ==
  LET viewport_top == M.start_y + M.pady + 1
      M1 == IF viewport_top <= y /\ viewport_top + Len(M.view_items) - M.top_view >= y
            THEN set_selected_item_index(M, y - viewport_top + M.top_view)
            ELSE M
  IN menu_set_footer(M1)

KEY_PAGE_UP == "KEY_PAGE_UP"
KEY_PAGE_DOWN == "KEY_PAGE_DOWN"
KEY_HOME == "KEY_HOME"
KEY_END == "KEY_END"

\* The keys a focused list receives in the model.
MenuKeys ==
  { KEY_UP_ARROW, KEY_DOWN_ARROW, KEY_PAGE_UP, KEY_PAGE_DOWN, KEY_HOME, KEY_END,
    KEY_A_LOWER }

\* ScrollMenu._handle_key_press
menu_handle_key_press(M, key_pressed) ==
  LET M1 == IF key_pressed = KEY_UP_ARROW THEN scroll_up(M)
            ELSE IF key_pressed = KEY_DOWN_ARROW THEN scroll_down(M)
            ELSE IF key_pressed = KEY_PAGE_UP THEN menu_page_up(M)
            ELSE IF key_pressed = KEY_PAGE_DOWN THEN menu_page_down(M)
            ELSE IF key_pressed = KEY_HOME THEN jump_to_top(M)
            ELSE IF key_pressed = KEY_END
            THEN jump_to_bottom(M, get_viewport_height(M))
            ELSE M
  IN menu_set_footer(M1)

\* The loop of ScrollMenu._draw; draw_text returns 1 for a one-line item.
RECURSIVE DrawItems(_, _, _, _)
DrawItems(M, itemi, posy, bottom) ==
  IF itemi >= Len(M.view_items) THEN bottom
  ELSE LET posy1 == posy + 1
           bottom1 == IF posy1 <= M.height - M.pady - 1 THEN itemi ELSE bottom
       IN IF posy1 >= M.height - M.pady - 1 THEN bottom1
          ELSE DrawItems(M, itemi + 1, posy1, bottom1)

\* ScrollMenu._draw
menu_draw(M) ==
  [M EXCEPT !.bottom_view = DrawItems(M, M.top_view, M.pady + 1, M.top_view)]


(***************************************************************************)
(* The multi-line text model: TextBlockImplementation and ScrollTextBlock.  *)
(* A text and a line are sequences of one-character strings.               *)
(***************************************************************************)
\* ------------------------------------------------------------------ bounds
MaxLines == 2
MaxChars == 4

\* The characters typed into the text block.
InsertChars == { "a" }

\* The texts the host passes to set_text and write.
Texts ==
  { << >>,
    << "a", "b", "\n", "c", "d" >>,
    << "a", "\n" >>,
    << "\n", "b" >> }

\* (start_x, start_y, height, width) a layout gives the text block.
TextGeometries == { <<0, 2, 4, 7>>, <<4, 6, 5, 8>> }

\* padx and pady of the text block (WidgetSet.add_text_block's defaults).
TextPadx == 1
TextPady == 0

VARIABLES
  text_lines,                          \* TextBlockImplementation._text_lines
  viewport_y_start, viewport_x_start,
  cursor_text_pos_x, cursor_text_pos_y,
  cursor_x, cursor_y,
  cursor_max_up, cursor_max_down, cursor_max_left, cursor_max_right,
  viewport_width, viewport_height,
  typed          \* k when the cursor line was empty, with the cursor and the
                 \* scroll offset at its start, and the k calls since each
                 \* inserted a character; None otherwise

textVars ==
  << text_lines, viewport_y_start, viewport_x_start, cursor_text_pos_x,
     cursor_text_pos_y, cursor_x, cursor_y, cursor_max_up, cursor_max_down,
     cursor_max_left, cursor_max_right, viewport_width, viewport_height, typed >>

\* The text block as one record, for the operators below.
TextBlock ==
  [ text_lines |-> text_lines,
    viewport_y_start |-> viewport_y_start, viewport_x_start |-> viewport_x_start,
    cursor_text_pos_x |-> cursor_text_pos_x, cursor_text_pos_y |-> cursor_text_pos_y,
    cursor_x |-> cursor_x, cursor_y |-> cursor_y,
    cursor_max_up |-> cursor_max_up, cursor_max_down |-> cursor_max_down,
    cursor_max_left |-> cursor_max_left, cursor_max_right |-> cursor_max_right,
    viewport_width |-> viewport_width, viewport_height |-> viewport_height ]

\* A slice bound as Python normalises it for a sequence of length n.
SliceIndex(n, i) == IF i < 0 THEN Max(n + i, 0) ELSE Min(i, n)

\* s[:i]
PyTo(s, i) == SubSeq(s, 1, SliceIndex(Len(s), i))

\* s[i:]
PyFrom(s, i) == SubSeq(s, SliceIndex(Len(s), i) + 1, Len(s))

\* str.splitlines for texts whose only line boundary is "\n": the pieces
\* between the newlines, without a last empty piece.
RECURSIVE SplitFrom(_, _, _)
SplitFrom(text, i, line) ==
  IF i > Len(text) THEN (IF line = << >> THEN << >> ELSE << line >>)
  ELSE IF text[i] = "\n" THEN << line >> \o SplitFrom(text, i + 1, << >>)
  ELSE SplitFrom(text, i + 1, Append(line, text[i]))

splitlines(text) == SplitFrom(text, 1, << >>)

\* TextBlockImplementation.get
RECURSIVE GetFrom(_, _)
GetFrom(lines, i) ==
  IF i > Len(lines) THEN << >>
  ELSE lines[i] \o << "\n" >> \o GetFrom(lines, i + 1)

get(T) == GetFrom(T.text_lines, 1)

\* TextBlockImplementation.get_current_line
get_current_line(T) == PyIndex(T.text_lines, T.cursor_text_pos_y)

\* self._text_lines[i] = text
SetLine(lines, i, text) ==
  [lines EXCEPT ![IF i < 0 THEN Len(lines) + i + 1 ELSE i + 1] = text]

\* TextBlockImplementation.set_text_line
set_text_line(T, text) ==
  [T EXCEPT !.text_lines = SetLine(@, T.cursor_text_pos_y, text)]

\* TextBlockImplementation.clear
text_clear(T) ==
  [T EXCEPT !.cursor_x = T.cursor_max_left, !.cursor_y = T.cursor_max_up,
            !.cursor_text_pos_x = 0, !.cursor_text_pos_y = 0,
            !.viewport_y_start = 0, !.viewport_x_start = 0,
            !.text_lines = << << >> >>]

\* TextBlockImplementation.set_text
set_text(T, text) ==
  LET lines == splitlines(text)
  IN [text_clear(T) EXCEPT
        !.text_lines = IF Len(lines) = 0 THEN << << >> >> ELSE lines]

\* TextBlockImplementation.write
write(T, text) ==
  IF Len(T.text_lines) = 1 /\ T.text_lines[1] = << >>
  THEN set_text(T, text)
  ELSE [T EXCEPT !.text_lines = @ \o splitlines(text)]

\* TextBlockImplementation._move_left
move_left(T) ==
  IF T.cursor_text_pos_x > 0
  THEN [T EXCEPT
          !.cursor_x = IF T.cursor_x > T.cursor_max_left THEN @ - 1 ELSE @,
          !.viewport_x_start =
             IF ~ (T.cursor_x > T.cursor_max_left) /\ T.viewport_x_start > 0
             THEN @ - 1 ELSE @,
          !.cursor_text_pos_x = @ - 1]
  ELSE T

\* TextBlockImplementation._move_right
move_right(T) ==
  LET current_line == get_current_line(T)
  IN IF T.cursor_text_pos_x < Len(current_line)
     THEN [T EXCEPT
             !.cursor_x = IF T.cursor_x < T.cursor_max_right THEN @ + 1 ELSE @,
             !.viewport_x_start =
                IF ~ (T.cursor_x < T.cursor_max_right)
                   /\ T.viewport_x_start + T.viewport_width < Len(current_line)
                THEN @ + 1 ELSE @,
             !.cursor_text_pos_x = @ + 1]
     ELSE T

\* The end of _move_up and _move_down: landing on a shorter line.
ClampColumn(T) ==
  LET temp == Len(PyIndex(T.text_lines, T.cursor_text_pos_y))
  IN IF T.cursor_text_pos_x > temp
     THEN [T EXCEPT !.cursor_x = @ - (T.cursor_text_pos_x - temp),
                    !.cursor_text_pos_x = temp]
     ELSE T

\* TextBlockImplementation._move_up
move_up(T) ==
  IF T.cursor_text_pos_y > 0
  THEN ClampColumn(
         [T EXCEPT
            !.cursor_y = IF T.cursor_y > T.cursor_max_up THEN @ - 1 ELSE @,
            !.viewport_y_start =
               IF ~ (T.cursor_y > T.cursor_max_up) /\ T.viewport_y_start > 0
               THEN @ - 1 ELSE @,
            !.cursor_text_pos_y = @ - 1])
  ELSE T

\* TextBlockImplementation._move_down
move_down(T) ==
  IF T.cursor_text_pos_y < Len(T.text_lines) - 1
  THEN ClampColumn(
         [T EXCEPT
            !.cursor_y = IF T.cursor_y < T.cursor_max_down THEN @ + 1 ELSE @,
            !.viewport_y_start =
               IF ~ (T.cursor_y < T.cursor_max_down)
                  /\ T.viewport_y_start + T.viewport_height < Len(T.text_lines)
               THEN @ + 1 ELSE @,
            !.cursor_text_pos_y = @ + 1])
  ELSE T

\* TextBlockImplementation._page_up
text_page_up(T) == Repeat(move_up, T.viewport_height, T)

\* TextBlockImplementation._page_down
text_page_down(T) == Repeat(move_down, T.viewport_height, T)

\* list.insert(i, x) for 0 <= i
InsertAt(seq, i, x) ==
  SubSeq(seq, 1, Min(i, Len(seq))) \o << x >> \o SubSeq(seq, Min(i, Len(seq)) + 1, Len(seq))

\* TextBlockImplementation._handle_newline
handle_newline(T) ==
  LET current_line == get_current_line(T)
      new_line_1 == PyTo(current_line, T.cursor_text_pos_x)
      new_line_2 == PyFrom(current_line, T.cursor_text_pos_x)
      lines == InsertAt(SetLine(T.text_lines, T.cursor_text_pos_y, new_line_1),
                        T.cursor_text_pos_y + 1, new_line_2)
  IN [T EXCEPT
        !.text_lines = lines,
        !.cursor_text_pos_y = @ + 1,
        !.cursor_text_pos_x = 0,
        !.cursor_x = T.cursor_max_left,
        !.viewport_x_start = 0,
        !.cursor_y = IF T.cursor_y < T.cursor_max_down THEN @ + 1 ELSE @,
        !.viewport_y_start =
           IF ~ (T.cursor_y < T.cursor_max_down)
              /\ T.viewport_y_start + T.viewport_height < Len(lines)
           THEN @ + 1 ELSE @]

\* TextBlockImplementation._handle_backspace
handle_backspace(T) ==
  LET current_line == get_current_line(T)
      x == T.cursor_text_pos_x
      y == T.cursor_text_pos_y
  IN IF x = 0 /\ y # 0
     THEN LET previous == PyIndex(T.text_lines, y - 1)
              merged == SetLine(T.text_lines, y - 1, previous \o PyIndex(T.text_lines, y))
          IN [T EXCEPT
                !.cursor_text_pos_x = Len(previous),
                !.text_lines = PyTo(merged, y) \o PyFrom(merged, y + 1),
                !.cursor_text_pos_y = y - 1,
                !.cursor_x = T.cursor_max_left + Len(previous),
                !.cursor_y = IF T.cursor_y > T.cursor_max_up THEN @ - 1 ELSE @,
                !.viewport_y_start =
                   IF ~ (T.cursor_y > T.cursor_max_up) /\ T.viewport_y_start > 0
                   THEN @ - 1 ELSE @]
     ELSE IF x > 0
     THEN [set_text_line(T, PyTo(current_line, x - 1) \o PyFrom(current_line, x))
             EXCEPT
               !.cursor_x = IF Len(current_line) <= T.viewport_width THEN @ - 1 ELSE @,
               !.cursor_text_pos_x = x - 1]
     ELSE T

\* TextBlockImplementation._handle_home
handle_home(T) ==
  [T EXCEPT !.cursor_x = T.cursor_max_left, !.cursor_text_pos_x = 0,
            !.viewport_x_start = 0]

\* TextBlockImplementation._handle_end
handle_end(T) ==
  LET current_line == get_current_line(T)
  IN IF Len(current_line) > T.viewport_width
     THEN [T EXCEPT !.cursor_text_pos_x = Len(current_line),
                    !.cursor_x = T.cursor_max_right,
                    !.viewport_x_start = Len(current_line) - T.viewport_width]
     ELSE [T EXCEPT !.cursor_text_pos_x = Len(current_line),
                    !.cursor_x = T.cursor_max_left + Len(current_line)]

\* TextBlockImplementation._handle_delete
handle_delete(T) ==
  LET current_line == get_current_line(T)
      x == T.cursor_text_pos_x
      y == T.cursor_text_pos_y
  IN IF x = Len(current_line) /\ y < Len(T.text_lines) - 1
     THEN LET merged == SetLine(T.text_lines, y,
                                PyIndex(T.text_lines, y) \o PyIndex(T.text_lines, y + 1))
          IN [T EXCEPT !.text_lines = PyTo(merged, y + 1) \o PyFrom(merged, y + 2)]
     ELSE IF x < Len(current_line)
     THEN set_text_line(T, PyTo(current_line, x) \o PyFrom(current_line, x + 1))
     ELSE T

\* TextBlockImplementation._insert_char
insert_char(T, ch) ==
  LET current_line == get_current_line(T)
      x == T.cursor_text_pos_x
  IN [set_text_line(T, PyTo(current_line, x) \o << ch >> \o PyFrom(current_line, x))
        EXCEPT
          !.cursor_x = IF Len(current_line) <= T.viewport_width THEN @ + 1 ELSE @,
          !.viewport_x_start =
             IF ~ (Len(current_line) <= T.viewport_width)
                /\ T.viewport_x_start + T.viewport_width < Len(current_line)
             THEN @ + 1 ELSE @,
          !.cursor_text_pos_x = x + 1]

\* ScrollTextBlock.update_height_width, after the layout stored the widget's
\* position and size.
update_height_width(T, start_x, start_y, h, w, padx, pady) ==
  LET up == start_y + 1
      left == start_x + padx + 2
      down == start_y + h - pady - 2
      right == start_x + w - padx - 1
  IN [T EXCEPT
        !.viewport_y_start = 0, !.viewport_x_start = 0,
        !.cursor_text_pos_x = 0, !.cursor_text_pos_y = 0,
        !.cursor_y = up, !.cursor_x = left,
        !.cursor_max_up = up, !.cursor_max_down = down,
        !.cursor_max_left = left, !.cursor_max_right = right,
        !.viewport_width = right - left, !.viewport_height = down - up]

\* ScrollTextBlock._handle_mouse_press
text_handle_mouse_press(T, x, y) ==
  IF y >= T.cursor_max_up /\ y <= T.cursor_max_down
     /\ x >= T.cursor_max_left /\ x <= T.cursor_max_right
  THEN LET line_clicked_index == y - T.cursor_max_up + T.viewport_y_start
           beyond == Len(T.text_lines) <= line_clicked_index
           pos_y == IF beyond THEN Len(T.text_lines) - 1 ELSE line_clicked_index
           T1 == [T EXCEPT
                    !.cursor_text_pos_y = pos_y,
                    !.cursor_y = IF beyond
                                 THEN T.cursor_max_up + pos_y - T.viewport_y_start
                                 ELSE y]
           line == IF beyond THEN T.text_lines[Len(T.text_lines)]
                   ELSE PyIndex(T.text_lines, line_clicked_index)
       IN IF x <= Len(line) + T.cursor_max_left
          THEN [T1 EXCEPT !.cursor_x = x,
                          !.cursor_text_pos_x = T.cursor_text_pos_x + (x - T.cursor_x)]
          ELSE [T1 EXCEPT !.cursor_x = T.cursor_max_left + Len(line),
                          !.cursor_text_pos_x = Len(line)]
  ELSE T

KEY_BACKSPACE == "KEY_BACKSPACE"
KEY_DELETE == "KEY_DELETE"

\* The keys a focused text block receives in the model, the characters apart.
TextKeys ==
  ARROW_KEYS \cup { KEY_PAGE_UP, KEY_PAGE_DOWN, KEY_BACKSPACE, KEY_DELETE,
                    KEY_ENTER, KEY_HOME, KEY_END }

\* ScrollTextBlock._handle_key_press (no key command is bound)
text_handle_key_press(T, key_pressed) ==
  IF key_pressed = KEY_LEFT_ARROW THEN move_left(T)
  ELSE IF key_pressed = KEY_RIGHT_ARROW THEN move_right(T)
  ELSE IF key_pressed = KEY_UP_ARROW THEN move_up(T)
  ELSE IF key_pressed = KEY_DOWN_ARROW THEN move_down(T)
  ELSE IF key_pressed = KEY_PAGE_UP THEN text_page_up(T)
  ELSE IF key_pressed = KEY_PAGE_DOWN THEN text_page_down(T)
  ELSE IF key_pressed = KEY_BACKSPACE THEN handle_backspace(T)
  ELSE IF key_pressed = KEY_DELETE THEN handle_delete(T)
  ELSE IF key_pressed = KEY_ENTER THEN handle_newline(T)
  ELSE IF key_pressed = KEY_HOME THEN handle_home(T)
  ELSE IF key_pressed = KEY_END THEN handle_end(T)
  ELSE IF key_pressed \in InsertChars THEN insert_char(T, key_pressed)
  ELSE T


(***************************************************************************)
(* The single-line text model: TextBoxImplementation and TextBox.          *)
(* The text is a sequence of one-character strings.                        *)
(***************************************************************************)
\* ------------------------------------------------------------------ bounds
MaxBoxChars == 3

\* The texts the host gives a text box (initial_text and set_text).
BoxTexts == { << >>, << "a", "b" >>, << "b", "a", "b" >> }

\* (start_x, start_y, height, width) the layout gives the text box.
BoxGeometries == { << 0, 0, 3, 7 >>, << 2, 0, 3, 9 >> }

\* The default padx of WidgetSet.add_text_box
BoxPadx == 1

\* The screen points a click on the text box can have.
BoxClicks == (0 .. 10) \X { 2 }

VARIABLES
  box,               \* the fields of a TextBox
  box_twin,          \* a TextBox built with the other password flag, which
                     \* receives the same calls
  box_render,        \* render_text of TextBox._draw of box when that was
                     \* the last call, << >> otherwise
  box_twin_render,   \* the same for box_twin
  box_op             \* the name of the last call, "" after __init__

boxVars == << box, box_twin, box_render, box_twin_render, box_op >>

\* TextBoxImplementation.__init__
TextBoxImplementation(initial_text, password) ==
  [ text |-> initial_text, password |-> password,
    initial_cursor |-> 0, cursor_text_pos |-> 0, cursor_max_left |-> 0,
    cursor_x |-> 0, cursor_max_right |-> 0, cursor_y |-> 0,
    viewport_width |-> 0, padx |-> BoxPadx, width |-> 0 ]

\* TextBoxImplementation.set_text
box_set_text(B, text) ==
  IF B.cursor_text_pos > Len(text)
  THEN LET diff == B.cursor_text_pos - Len(text)
       IN [B EXCEPT !.text = text, !.cursor_text_pos = Len(text),
                    !.cursor_x = @ - diff]
  ELSE [B EXCEPT !.text = text]

\* get that gives stars for a password box.
box_get_masked(B) ==
  IF B.password THEN [i \in 1 .. Len(B.text) |-> "*"] ELSE B.text

\* TextBoxImplementation.get
box_get(B) == B.text

\* TextBoxImplementation.clear
box_clear(B) ==
  [B EXCEPT !.cursor_x = B.cursor_max_left, !.cursor_text_pos = 0,
            !.text = << >>]

\* TextBoxImplementation._move_left
box_move_left(B) ==
  IF B.cursor_text_pos > 0
  THEN [B EXCEPT !.cursor_x = IF @ > B.cursor_max_left THEN @ - 1 ELSE @,
                 !.cursor_text_pos = @ - 1]
  ELSE B

\* TextBoxImplementation._move_right
box_move_right(B) ==
  IF B.cursor_text_pos < Len(B.text)
  THEN [B EXCEPT !.cursor_x = IF @ < B.cursor_max_right THEN @ + 1 ELSE @,
                 !.cursor_text_pos = @ + 1]
  ELSE B

\* TextBoxImplementation._insert_char
box_insert_char(B, c) ==
  LET text == PyTo(B.text, B.cursor_text_pos) \o << c >>
                \o PyFrom(B.text, B.cursor_text_pos)
  IN [B EXCEPT !.text = text,
               !.cursor_x = IF Len(text) < B.viewport_width THEN @ + 1 ELSE @,
               !.cursor_text_pos = @ + 1]

\* TextBoxImplementation._jump_to_start
box_jump_to_start(B) ==
  [B EXCEPT !.cursor_x = B.initial_cursor, !.cursor_text_pos = 0]

\* _jump_to_end with the cursor kept inside the box.
box_jump_to_end_clamped(B) ==
  [B EXCEPT !.cursor_text_pos = Len(B.text),
            !.cursor_x = Min(B.initial_cursor + Len(B.text), B.cursor_max_right)]

\* TextBoxImplementation._jump_to_end
box_jump_to_end(B) ==
  [B EXCEPT !.cursor_text_pos = Len(B.text),
            !.cursor_x = B.initial_cursor + Len(B.text)]

\* TextBoxImplementation._erase_char
box_erase_char(B) ==
  IF B.cursor_text_pos > 0
  THEN LET text == PyTo(B.text, B.cursor_text_pos - 1)
                     \o PyFrom(B.text, B.cursor_text_pos)
       IN [B EXCEPT !.text = text,
                    !.cursor_x = IF Len(text) < B.viewport_width THEN @ - 1 ELSE @,
                    !.cursor_text_pos = @ - 1]
  ELSE B

\* TextBoxImplementation._delete_char
box_delete_char(B) ==
  IF B.cursor_text_pos < Len(B.text)
  THEN [B EXCEPT !.text = PyTo(B.text, B.cursor_text_pos)
                            \o PyFrom(B.text, B.cursor_text_pos + 1)]
  ELSE B

\* TextBox.update_height_width, after the layout stored the widget's position
\* and size g = (start_x, start_y, height, width).
box_update_height_width(B, g) ==
  LET left == g[1] + B.padx + 2
      right == g[1] + g[4] - B.padx - 1
  IN [B EXCEPT !.width = g[4],
               !.initial_cursor = left, !.cursor_text_pos = 0,
               !.cursor_x = left, !.cursor_max_left = left,
               !.cursor_max_right = right,
               !.cursor_y = g[2] + (g[3] \div 2) + 1,
               !.viewport_width = right - left]

\* TextBox._handle_mouse_press
box_handle_mouse_press(B, x, y) ==
  IF y = B.cursor_y /\ x >= B.cursor_max_left /\ x <= B.cursor_max_right
  THEN IF x <= Len(B.text) + B.cursor_max_left
       THEN [B EXCEPT !.cursor_x = x,
                      !.cursor_text_pos = @ + (x - B.cursor_x)]
       ELSE [B EXCEPT !.cursor_x = B.cursor_max_left + Len(B.text),
                      !.cursor_text_pos = Len(B.text)]
  ELSE B

\* The keys a focused text box receives in the model.
BoxKeys ==
  { KEY_LEFT_ARROW, KEY_RIGHT_ARROW, KEY_BACKSPACE, KEY_DELETE, KEY_HOME,
    KEY_END, KEY_ESCAPE } \cup InsertChars

\* TextBox._handle_key_press
box_handle_key_press(B, key_pressed) ==
  IF key_pressed = KEY_LEFT_ARROW THEN box_move_left(B)
  ELSE IF key_pressed = KEY_RIGHT_ARROW THEN box_move_right(B)
  ELSE IF key_pressed = KEY_BACKSPACE THEN box_erase_char(B)
  ELSE IF key_pressed = KEY_DELETE THEN box_delete_char(B)
  ELSE IF key_pressed = KEY_HOME THEN box_jump_to_start(B)
  ELSE IF key_pressed = KEY_END THEN box_jump_to_end(B)
  ELSE IF key_pressed \in InsertChars THEN box_insert_char(B, key_pressed)
  ELSE B

\* s[i:j]
PySlice(s, i, j) ==
  SubSeq(s, SliceIndex(Len(s), i) + 1, SliceIndex(Len(s), j))

\* TextBox._draw: the text it hands to the renderer.
box_render_text(B) ==
  LET room == B.width - 2 * B.padx - 4
      end == Len(B.text) - room
      render_text ==
        IF Len(B.text) > room
        THEN IF B.cursor_text_pos < end
             THEN PySlice(B.text, B.cursor_text_pos, B.cursor_text_pos + room)
             ELSE PyFrom(B.text, end)
        ELSE B.text
  IN IF B.password THEN [i \in 1 .. Len(render_text) |-> "*"] ELSE render_text

(***************************************************************************)
(* The grid geometry: Grid.                                                *)
(***************************************************************************)
\* ------------------------------------------------------------------ bounds
\* The largest row or column count given to a grid.
MaxCount == 4

\* The heights and widths given to a grid.
GridSizes == { 4, 7, 10, 11, 15 }

VARIABLES
  g_num_rows, g_num_columns,           \* Grid._num_rows, _num_columns
  g_height, g_width,                   \* Grid._height, _width
  g_row_height, g_column_width,        \* Grid._row_height, _column_width
  g_offset_x, g_offset_y,              \* Grid._offset_x, _offset_y
  g_err                                \* the exception the last call raised, or ""

gridVars == << g_num_rows, g_num_columns, g_height, g_width, g_row_height,
               g_column_width, g_offset_x, g_offset_y, g_err >>

\* The grid as a record; a call starts with no exception.
Grid ==
  [ num_rows |-> g_num_rows, num_columns |-> g_num_columns,
    height |-> g_height, width |-> g_width,
    row_height |-> g_row_height, column_width |-> g_column_width,
    offset_x |-> g_offset_x, offset_y |-> g_offset_y, err |-> "" ]

\* Grid._update_size with the cell sizes rounded up, not down.
grid_update_size_rounding_up(G) ==
  IF 3 * G.num_columns >= G.width THEN Raise(G, "PyCUIOutOfBoundsError")
  ELSE IF 3 * G.num_rows >= G.height THEN Raise(G, "PyCUIOutOfBoundsError")
  ELSE LET rh == (G.height + G.num_rows - 1) \div G.num_rows
           cw == (G.width + G.num_columns - 1) \div G.num_columns
       IN [G EXCEPT !.row_height = rh, !.column_width = cw,
                    !.offset_x = (G.width % cw) \div 2,
                    !.offset_y = (G.height % rh) \div 2]

\* Grid._update_size
grid_update_size(G) ==
  IF 3 * G.num_columns >= G.width THEN Raise(G, "PyCUIOutOfBoundsError")
  ELSE IF 3 * G.num_rows >= G.height THEN Raise(G, "PyCUIOutOfBoundsError")
  ELSE LET rh == G.height \div G.num_rows
           cw == G.width \div G.num_columns
       IN [G EXCEPT !.row_height = rh, !.column_width = cw,
                    !.offset_x = (G.width % cw) \div 2,
                    !.offset_y = (G.height % rh) \div 2]

\* Grid.set_num_rows
set_num_rows(G, num_rows) == grid_update_size([G EXCEPT !.num_rows = num_rows])

\* Grid.set_num_cols
set_num_cols(G, num_columns) ==
  grid_update_size([G EXCEPT !.num_columns = num_columns])

\* Grid.update_grid_height_width
update_grid_height_width(G, h, w) ==
  grid_update_size([G EXCEPT !.height = h, !.width = w])

(***************************************************************************)
(* The slider: SliderImplementation.                                       *)
(***************************************************************************)
\* ------------------------------------------------------------------ bounds
\* min_val, max_val, init_val and step given to the constructor, the steps
\* given to set_slider_step and the offsets given to update_slider_value.
SliderMins == { 0, 2 }

SliderMaxs == { 6, 9 }

SliderInits == (0 - 1) .. 10

SliderSteps == { 0 - 1, 1, 2, 3 }

SliderOffsets == { 0 - 2, 0 - 1, 1, 2 }

VARIABLES
  s_min_val, s_max_val, s_cur_val, s_step,  \* SliderImplementation's fields
  s_err,      \* the exception the constructor raised, or ""
  s_moved     \* update_slider_value has been called

sliderVars == << s_min_val, s_max_val, s_cur_val, s_step, s_err, s_moved >>

\* The slider as a record.
Slider ==
  [ min_val |-> s_min_val, max_val |-> s_max_val, cur_val |-> s_cur_val,
    step |-> s_step, err |-> s_err ]

\* SliderImplementation.__init__
slider_init(min_val, max_val, init_val, step) ==
  LET S == [ min_val |-> min_val, max_val |-> max_val, cur_val |-> init_val,
             step |-> step, err |-> "" ]
  IN IF S.cur_val < S.min_val \/ S.cur_val > S.max_val
     THEN Raise(S, "PyCUIInvalidValue")
     ELSE S

\* SliderImplementation.update_slider_value without the upper clamp.
update_slider_value_unclamped_above(S, offset) ==
  LET v == S.cur_val + offset * S.step
  IN [S EXCEPT !.cur_val = IF v < S.min_val THEN S.min_val ELSE v]

\* SliderImplementation.update_slider_value
update_slider_value(S, offset) ==
  LET v == S.cur_val + offset * S.step
  IN [S EXCEPT !.cur_val = IF v < S.min_val THEN S.min_val
                           ELSE IF v > S.max_val THEN S.max_val
                           ELSE v]

\* SliderImplementation.set_slider_step
set_slider_step(S, step) == [S EXCEPT !.step = step]

(***************************************************************************)
(* The variables each component leaves alone.                              *)
(***************************************************************************)
notFocusVars == << menuVars, textVars, gridVars, sliderVars, boxVars >>

notMenuVars == << focusVars, textVars, gridVars, sliderVars, boxVars >>

notTextVars == << focusVars, menuVars, gridVars, sliderVars, boxVars >>

notGridVars == << focusVars, menuVars, textVars, sliderVars, boxVars >>

notSliderVars == << focusVars, menuVars, textVars, gridVars, boxVars >>

notBoxVars == << focusVars, menuVars, textVars, gridVars, sliderVars >>

(***************************************************************************)
(* The main loop and the host's calls on the container.                    *)
(***************************************************************************)
\* Store the record after a call.
Store(L) ==
  /\ ids' = L.ids
  /\ widgets' = L.widgets
  /\ selected_widget' = L.selected_widget
  /\ in_focused_mode' = L.in_focused_mode
  /\ height' = L.height
  /\ width' = L.width
  /\ row_height' = L.row_height
  /\ col_width' = L.col_width
  /\ offset_x' = L.offset_x
  /\ offset_y' = L.offset_y
  /\ gui_height' = L.gui_height
  /\ gui_width' = L.gui_width
  /\ err' = L.err
  /\ warned' = L.warned
  /\ delivered' = L.delivered

\* Store the record after a pass of the loop; an exception other than
\* KeyboardInterrupt leaves the loop.
Commit(L) ==
  /\ Store(L)
  /\ loop' = IF L.err # "" THEN "crashed" ELSE "running"

\* PyCUI.__init__ with GridLayout.__init__ and Layout.__init__
FocusInit ==
  /\ ids = << >>
  /\ widgets = << >>
  /\ selected_widget = None
  /\ in_focused_mode = FALSE
  /\ gui_height = InitSize[1]
  /\ gui_width = InitSize[2]
  /\ height = InitSize[1] - top_padding - bottom_padding - 2
  /\ width = InitSize[2] - left_padding - right_padding
  /\ row_height = 0
  /\ col_width = 0
  /\ offset_x = 0
  /\ offset_y = 0
  /\ loop = "init"
  /\ err = ""
  /\ warned = FALSE
  /\ delivered = << >>
  /\ ctor_err = ""
  \* the list and the text block, not used here, as constructed
  /\ view_items = << >>
  /\ selected_item = 0 /\ top_view = 0 /\ bottom_view = 0
  /\ footer = << >>
  /\ m_start_y = 0 /\ m_height = 0 /\ m_pady = 0
  /\ m_err = "" /\ m_rendered = FALSE /\ m_op = ""
  /\ m_checkbox = FALSE /\ selected_item_dict = EmptyDict
  /\ text_lines = << << >> >>
  /\ viewport_y_start = 0 /\ viewport_x_start = 0
  /\ cursor_text_pos_x = 0 /\ cursor_text_pos_y = 0
  /\ cursor_x = 0 /\ cursor_y = 0
  /\ cursor_max_up = 0 /\ cursor_max_down = 0
  /\ cursor_max_left = 0 /\ cursor_max_right = 0
  /\ viewport_width = 0 /\ viewport_height = 0
  /\ typed = None
  \* a grid and a slider, not used here, as constructed
  /\ g_num_rows = 1 /\ g_num_columns = 1
  /\ g_height = 4 /\ g_width = 4
  /\ g_row_height = 4 /\ g_column_width = 4
  /\ g_offset_x = 0 /\ g_offset_y = 0
  /\ g_err = ""
  /\ s_min_val = 0 /\ s_max_val = 100 /\ s_cur_val = 50 /\ s_step = 1
  /\ s_err = "" /\ s_moved = FALSE
  /\ box = TextBoxImplementation(<< >>, FALSE)
  /\ box_twin = TextBoxImplementation(<< >>, TRUE)
  /\ box_render = << >> /\ box_twin_render = << >> /\ box_op = ""

\* The host constructs a widget and adds it, as in
\* root.add_widget(Widget(root, ...)): Widget.__init__ takes the id from
\* get_next_id and raises for a span outside the grid, then GridLayout.add_widget.
AddWidget(p) ==
  /\ loop \in { "init", "running" }
  /\ Len(ids) < MaxWidgets
  /\ IF FitsGrid(p)
     THEN /\ LET L == add_widget(Container, NewWidget(get_next_id(Container), p))
             IN Store([L EXCEPT !.warned = warned, !.delivered = delivered])
          /\ ctor_err' = ""
     ELSE /\ ctor_err' = "PyCUIOutOfBoundsError"
          /\ UNCHANGED << ids, widgets, selected_widget, in_focused_mode, height,
                          width, row_height, col_width, offset_x, offset_y,
                          gui_height, gui_width, err, warned, delivered >>
  /\ loop' = loop
  /\ UNCHANGED notFocusVars

\* PyCUI.start: the first refresh, outside the loop's try, then the first
\* pass of the loop with key_pressed = 0.
Start(size) ==
  /\ loop = "init"
  /\ Commit(Then(gui_refresh_height_width(Container, size[1], size[2]),
                 LAMBDA M : loop_body(M, KEY_NONE, 0, 0, size)))
  /\ UNCHANGED ctor_err
  /\ UNCHANGED notFocusVars

\* getch() returned a key: the loop condition, then one pass of the loop.
KeyPress(key) ==
  /\ loop = "running"
  /\ key \notin { KEY_MOUSE, KEY_RESIZE }
  /\ loop_continues(Container, key)
  /\ Commit(loop_body(Container, key, 0, 0, << gui_height, gui_width >>))
  /\ UNCHANGED ctor_err
  /\ UNCHANGED notFocusVars

\* getch() returned KEY_MOUSE, and getmouse() the click at (x, y).
MouseClick(x, y) ==
  /\ loop = "running"
  /\ Commit(loop_body(Container, KEY_MOUSE, x, y, << gui_height, gui_width >>))
  /\ UNCHANGED ctor_err
  /\ UNCHANGED notFocusVars

\* getch() returned KEY_RESIZE, and the terminal has the given size.
Resize(size) ==
  /\ loop = "running"
  /\ Commit(loop_body(Container, KEY_RESIZE, 0, 0, size))
  /\ UNCHANGED ctor_err
  /\ UNCHANGED notFocusVars

\* getch() returned the exit key in Overview: the loop ends.
Exit ==
  /\ loop = "running"
  /\ ~ loop_continues(Container, exit_key)
  /\ loop' = "exited"
  /\ UNCHANGED << ids, widgets, selected_widget, in_focused_mode, height, width,
                  row_height, col_width, offset_x, offset_y, gui_height,
                  gui_width, err, warned, delivered, ctor_err >>
  /\ UNCHANGED notFocusVars

FocusNext ==
  \/ \E p \in Placements : AddWidget(p)
  \/ \E size \in TermSizes : Start(size)
  \/ \E key \in Keys : KeyPress(key)
  \/ \E c \in ClickPoints : MouseClick(c[1], c[2])
  \/ \E size \in TermSizes : Resize(size)
  \/ Exit



(***************************************************************************)
(* The calls on a list widget.                                             *)
(***************************************************************************)
\* Store the menu after a call.  Stale bounds let top_view grow without limit
\* (add, scroll down, remove, ...); the model stops at MaxItems.
MenuStore(M, rendered) ==
  /\ M.top_view <= MaxItems
  /\ view_items' = M.view_items
  /\ selected_item' = M.selected_item
  /\ top_view' = M.top_view
  /\ bottom_view' = M.bottom_view
  /\ footer' = M.footer
  /\ m_start_y' = M.start_y
  /\ m_height' = M.height
  /\ m_pady' = M.pady
  /\ m_err' = M.err
  /\ m_rendered' = rendered
  /\ m_checkbox' = M.checkbox
  /\ selected_item_dict' = M.selected_item_dict

\* MenuImplementation.__init__ and the first layout of the widget
MenuInit ==
  /\ view_items = << >>
  /\ selected_item = 0
  /\ top_view = 0
  /\ bottom_view = 0
  /\ footer = << >>
  /\ m_start_y = MenuStartY
  /\ m_height \in MenuHeights
  /\ m_pady = MenuPady
  /\ m_err = ""
  /\ m_rendered = FALSE
  /\ m_op = ""
  /\ m_checkbox \in BOOLEAN
  /\ selected_item_dict = EmptyDict
  \* the container and the text block, not used here, as constructed
  /\ ids = << >>
  /\ widgets = << >>
  /\ selected_widget = None
  /\ in_focused_mode = FALSE
  /\ gui_height = InitSize[1]
  /\ gui_width = InitSize[2]
  /\ height = InitSize[1] - top_padding - bottom_padding - 2
  /\ width = InitSize[2] - left_padding - right_padding
  /\ row_height = 0
  /\ col_width = 0
  /\ offset_x = 0
  /\ offset_y = 0
  /\ loop = "init"
  /\ err = ""
  /\ warned = FALSE
  /\ delivered = << >>
  /\ ctor_err = ""
  /\ text_lines = << << >> >>
  /\ viewport_y_start = 0 /\ viewport_x_start = 0
  /\ cursor_text_pos_x = 0 /\ cursor_text_pos_y = 0
  /\ cursor_x = 0 /\ cursor_y = 0
  /\ cursor_max_up = 0 /\ cursor_max_down = 0
  /\ cursor_max_left = 0 /\ cursor_max_right = 0
  /\ viewport_width = 0 /\ viewport_height = 0
  /\ typed = None
  \* a grid and a slider, not used here, as constructed
  /\ g_num_rows = 1 /\ g_num_columns = 1
  /\ g_height = 4 /\ g_width = 4
  /\ g_row_height = 4 /\ g_column_width = 4
  /\ g_offset_x = 0 /\ g_offset_y = 0
  /\ g_err = ""
  /\ s_min_val = 0 /\ s_max_val = 100 /\ s_cur_val = 50 /\ s_step = 1
  /\ s_err = "" /\ s_moved = FALSE
  /\ box = TextBoxImplementation(<< >>, FALSE)
  /\ box_twin = TextBoxImplementation(<< >>, TRUE)
  /\ box_render = << >> /\ box_twin_render = << >> /\ box_op = ""

MenuAddItem(item) ==
  /\ m_err = ""
  /\ Len(view_items) < MaxItems
  /\ MenuStore(IF m_checkbox THEN checkbox_add_item(Menu, item)
               ELSE add_item(Menu, item), FALSE)
  /\ m_op' = "add_item"
  /\ UNCHANGED notMenuVars

MenuRemoveSelectedItem ==
  /\ m_err = ""
  /\ MenuStore(self_remove_selected_item(Menu), FALSE)
  /\ m_op' = "remove_selected_item"
  /\ UNCHANGED notMenuVars

MenuRemoveItem(item) ==
  /\ m_err = ""
  /\ MenuStore(IF m_checkbox THEN checkbox_remove_item(Menu, item)
               ELSE remove_item(Menu, item), FALSE)
  /\ m_op' = "remove_item"
  /\ UNCHANGED notMenuVars

MenuClear ==
  /\ m_err = ""
  /\ MenuStore(menu_clear(Menu), FALSE)
  /\ m_op' = "clear"
  /\ UNCHANGED notMenuVars

MenuClearItems ==
  /\ m_err = ""
  /\ MenuStore(clear_items(Menu), FALSE)
  /\ m_op' = "clear_items"
  /\ UNCHANGED notMenuVars

\* The host selects an item of the list by its index.
MenuSetSelectedItemIndex(i) ==
  /\ m_err = ""
  /\ i < Len(view_items)
  /\ MenuStore(set_selected_item_index(Menu, i), FALSE)
  /\ m_op' = "set_selected_item_index"
  /\ UNCHANGED notMenuVars

\* The host toggles the check mark of an item of a checkbox list.
MenuMarkItemAsChecked(item) ==
  /\ m_err = ""
  /\ m_checkbox
  /\ MenuStore(mark_item_as_checked(Menu, item), FALSE)
  /\ m_op' = "mark_item_as_checked"
  /\ UNCHANGED notMenuVars

\* A key delivered to the focused list.  Keys, clicks, resizes and render
\* passes are those of the ScrollMenu widget; a checkbox list is driven
\* through the calls of CheckBoxMenuImplementation.
MenuKeyPress(key) ==
  /\ m_err = ""
  /\ ~ m_checkbox
  /\ MenuStore(menu_handle_key_press(Menu, key), FALSE)
  /\ m_op' = "_handle_key_press"
  /\ UNCHANGED notMenuVars

\* A click delivered to the focused list, on one of the rows of the widget.
MenuMousePress(y) ==
  /\ m_err = ""
  /\ ~ m_checkbox
  /\ y \in m_start_y .. m_start_y + m_height
  /\ MenuStore(menu_handle_mouse_press(Menu, 0, y), FALSE)
  /\ m_op' = "_handle_mouse_press"
  /\ UNCHANGED notMenuVars

\* A resize gives the widget another height.
MenuResize(h) ==
  /\ m_err = ""
  /\ ~ m_checkbox
  /\ h # m_height
  /\ MenuStore([Menu EXCEPT !.height = h], FALSE)
  /\ m_op' = "update_height_width"
  /\ UNCHANGED notMenuVars

\* The render pass of the main loop.
MenuDraw ==
  /\ m_err = ""
  /\ ~ m_checkbox
  /\ MenuStore(menu_draw(Menu), TRUE)
  /\ m_op' = "_draw"
  /\ UNCHANGED notMenuVars

MenuNext ==
  \/ \E item \in Items : MenuAddItem(item)
  \/ MenuRemoveSelectedItem
  \/ \E item \in Items : MenuRemoveItem(item)
  \/ MenuClear
  \/ MenuClearItems
  \/ \E i \in 0 .. MaxItems - 1 : MenuSetSelectedItemIndex(i)
  \/ \E item \in Items : MenuMarkItemAsChecked(item)
  \/ \E key \in MenuKeys : MenuKeyPress(key)
  \/ \E y \in MenuRows : MenuMousePress(y)
  \/ \E h \in MenuHeights : MenuResize(h)
  \/ MenuDraw



(***************************************************************************)
(* The calls on a text block.                                              *)
(***************************************************************************)
\* Characters in the buffer.
RECURSIVE CountChars(_, _)
CountChars(lines, i) ==
  IF i > Len(lines) THEN 0 ELSE Len(lines[i]) + CountChars(lines, i + 1)

\* The cursor line is empty and the cursor and the horizontal scroll offset
\* are at its start.
AtEmptyLine(T) ==
  /\ get_current_line(T) = << >>
  /\ T.cursor_text_pos_x = 0
  /\ T.viewport_x_start = 0
  /\ T.cursor_x = T.cursor_max_left

\* The text block is within the bounds of the exploration.
TextBounded(T) ==
  /\ Len(T.text_lines) <= MaxLines
  /\ CountChars(T.text_lines, 1) <= MaxChars
  /\ T.cursor_text_pos_x \in (0 - MaxChars) .. MaxChars
  /\ T.viewport_x_start \in 0 .. MaxChars
  /\ T.cursor_x \in (T.cursor_max_left - MaxChars) .. (T.cursor_max_left + MaxChars)

\* Store the text block after a call.
TextStore(T, inserted) ==
  /\ TextBounded(T)
  /\ text_lines' = T.text_lines
  /\ viewport_y_start' = T.viewport_y_start
  /\ viewport_x_start' = T.viewport_x_start
  /\ cursor_text_pos_x' = T.cursor_text_pos_x
  /\ cursor_text_pos_y' = T.cursor_text_pos_y
  /\ cursor_x' = T.cursor_x
  /\ cursor_y' = T.cursor_y
  /\ cursor_max_up' = T.cursor_max_up
  /\ cursor_max_down' = T.cursor_max_down
  /\ cursor_max_left' = T.cursor_max_left
  /\ cursor_max_right' = T.cursor_max_right
  /\ viewport_width' = T.viewport_width
  /\ viewport_height' = T.viewport_height
  /\ typed' = IF inserted /\ typed # None THEN typed + 1
              ELSE IF AtEmptyLine(T) THEN 0
              ELSE None

\* TextBlockImplementation.__init__ with an initial text, then the first
\* ScrollTextBlock.update_height_width.
TextInit ==
  \E text \in Texts, g \in TextGeometries :
    LET lines == splitlines(text)
        T0 == [ text_lines |-> IF Len(lines) = 0 THEN << << >> >> ELSE lines,
                viewport_y_start |-> 0, viewport_x_start |-> 0,
                cursor_text_pos_x |-> 0, cursor_text_pos_y |-> 0,
                cursor_x |-> 0, cursor_y |-> 0,
                cursor_max_up |-> 0, cursor_max_down |-> 0,
                cursor_max_left |-> 0, cursor_max_right |-> 0,
                viewport_width |-> 0, viewport_height |-> 0 ]
        T == update_height_width(T0, g[1], g[2], g[3], g[4], TextPadx, TextPady)
    IN /\ text_lines = T.text_lines
       /\ viewport_y_start = T.viewport_y_start
       /\ viewport_x_start = T.viewport_x_start
       /\ cursor_text_pos_x = T.cursor_text_pos_x
       /\ cursor_text_pos_y = T.cursor_text_pos_y
       /\ cursor_x = T.cursor_x
       /\ cursor_y = T.cursor_y
       /\ cursor_max_up = T.cursor_max_up
       /\ cursor_max_down = T.cursor_max_down
       /\ cursor_max_left = T.cursor_max_left
       /\ cursor_max_right = T.cursor_max_right
       /\ viewport_width = T.viewport_width
       /\ viewport_height = T.viewport_height
       /\ typed = IF AtEmptyLine(T) THEN 0 ELSE None
       \* the container and the list, not used here, as constructed
       /\ ids = << >>
       /\ widgets = << >>
       /\ selected_widget = None
       /\ in_focused_mode = FALSE
       /\ gui_height = InitSize[1]
       /\ gui_width = InitSize[2]
       /\ height = InitSize[1] - top_padding - bottom_padding - 2
       /\ width = InitSize[2] - left_padding - right_padding
       /\ row_height = 0
       /\ col_width = 0
       /\ offset_x = 0
       /\ offset_y = 0
       /\ loop = "init"
       /\ err = ""
       /\ warned = FALSE
       /\ delivered = << >>
       /\ ctor_err = ""
       /\ view_items = << >>
       /\ selected_item = 0 /\ top_view = 0 /\ bottom_view = 0
       /\ footer = << >>
       /\ m_start_y = 0 /\ m_height = 0 /\ m_pady = 0
       /\ m_err = "" /\ m_rendered = FALSE /\ m_op = ""
       /\ m_checkbox = FALSE /\ selected_item_dict = EmptyDict
       \* a grid and a slider, not used here, as constructed
       /\ g_num_rows = 1 /\ g_num_columns = 1
       /\ g_height = 4 /\ g_width = 4
       /\ g_row_height = 4 /\ g_column_width = 4
       /\ g_offset_x = 0 /\ g_offset_y = 0
       /\ g_err = ""
       /\ s_min_val = 0 /\ s_max_val = 100 /\ s_cur_val = 50 /\ s_step = 1
       /\ s_err = "" /\ s_moved = FALSE
       /\ box = TextBoxImplementation(<< >>, FALSE)
       /\ box_twin = TextBoxImplementation(<< >>, TRUE)
       /\ box_render = << >> /\ box_twin_render = << >> /\ box_op = ""

\* A key other than a character delivered to the focused text block.
TextKeyPress(key) ==
  /\ TextStore(text_handle_key_press(TextBlock, key), FALSE)
  /\ UNCHANGED notTextVars

\* A character delivered to the focused text block.
TextInsertChar(ch) ==
  /\ TextStore(text_handle_key_press(TextBlock, ch), TRUE)
  /\ UNCHANGED notTextVars

\* A click delivered to the focused text block.
TextMousePress(x, y) ==
  /\ TextStore(text_handle_mouse_press(TextBlock, x, y), FALSE)
  /\ UNCHANGED notTextVars

TextSetText(text) ==
  /\ TextStore(set_text(TextBlock, text), FALSE)
  /\ UNCHANGED notTextVars

TextWrite(text) ==
  /\ TextStore(write(TextBlock, text), FALSE)
  /\ UNCHANGED notTextVars

TextClear ==
  /\ TextStore(text_clear(TextBlock), FALSE)
  /\ UNCHANGED notTextVars

\* A resize gives the widget another position and size.
TextResize(g) ==
  /\ TextStore(update_height_width(TextBlock, g[1], g[2], g[3], g[4],
                                   TextPadx, TextPady), FALSE)
  /\ UNCHANGED notTextVars

TextNext ==
  \/ \E key \in TextKeys : TextKeyPress(key)
  \/ \E ch \in InsertChars : TextInsertChar(ch)
  \/ \E x \in cursor_max_left .. cursor_max_right,
        y \in cursor_max_up .. cursor_max_down : TextMousePress(x, y)
  \/ \E text \in Texts : TextSetText(text)
  \/ \E text \in Texts : TextWrite(text)
  \/ TextClear
  \/ \E g \in TextGeometries : TextResize(g)

(***************************************************************************)
(* The calls on a grid.                                                    *)
(***************************************************************************)
\* Store the grid after a call.
GridStore(G) ==
  /\ g_num_rows' = G.num_rows
  /\ g_num_columns' = G.num_columns
  /\ g_height' = G.height
  /\ g_width' = G.width
  /\ g_row_height' = G.row_height
  /\ g_column_width' = G.column_width
  /\ g_offset_x' = G.offset_x
  /\ g_offset_y' = G.offset_y
  /\ g_err' = G.err

\* Grid.__init__ that did not raise.
GridInit ==
  \E r \in 1 .. MaxCount, c \in 1 .. MaxCount, h \in GridSizes, w \in GridSizes :
    LET G == grid_update_size(
               [ num_rows |-> r, num_columns |-> c, height |-> h, width |-> w,
                 row_height |-> 0, column_width |-> 0,
                 offset_x |-> 0, offset_y |-> 0, err |-> "" ])
    IN /\ G.err = ""
       /\ g_num_rows = G.num_rows
       /\ g_num_columns = G.num_columns
       /\ g_height = G.height
       /\ g_width = G.width
       /\ g_row_height = G.row_height
       /\ g_column_width = G.column_width
       /\ g_offset_x = G.offset_x
       /\ g_offset_y = G.offset_y
       /\ g_err = ""
       \* the container, the list, the text block and a slider, not used here
       /\ ids = << >>
       /\ widgets = << >>
       /\ selected_widget = None
       /\ in_focused_mode = FALSE
       /\ gui_height = InitSize[1]
       /\ gui_width = InitSize[2]
       /\ height = InitSize[1] - top_padding - bottom_padding - 2
       /\ width = InitSize[2] - left_padding - right_padding
       /\ row_height = 0
       /\ col_width = 0
       /\ offset_x = 0
       /\ offset_y = 0
       /\ loop = "init"
       /\ err = ""
       /\ warned = FALSE
       /\ delivered = << >>
       /\ ctor_err = ""
       /\ view_items = << >>
       /\ selected_item = 0 /\ top_view = 0 /\ bottom_view = 0
       /\ footer = << >>
       /\ m_start_y = 0 /\ m_height = 0 /\ m_pady = 0
       /\ m_err = "" /\ m_rendered = FALSE /\ m_op = ""
       /\ m_checkbox = FALSE /\ selected_item_dict = EmptyDict
       /\ text_lines = << << >> >>
       /\ viewport_y_start = 0 /\ viewport_x_start = 0
       /\ cursor_text_pos_x = 0 /\ cursor_text_pos_y = 0
       /\ cursor_x = 0 /\ cursor_y = 0
       /\ cursor_max_up = 0 /\ cursor_max_down = 0
       /\ cursor_max_left = 0 /\ cursor_max_right = 0
       /\ viewport_width = 0 /\ viewport_height = 0
       /\ typed = None
       /\ s_min_val = 0 /\ s_max_val = 100 /\ s_cur_val = 50 /\ s_step = 1
       /\ s_err = "" /\ s_moved = FALSE
       /\ box = TextBoxImplementation(<< >>, FALSE)
       /\ box_twin = TextBoxImplementation(<< >>, TRUE)
       /\ box_render = << >> /\ box_twin_render = << >> /\ box_op = ""

GridSetNumRows(num_rows) ==
  /\ GridStore(set_num_rows(Grid, num_rows))
  /\ UNCHANGED notGridVars

GridSetNumCols(num_columns) ==
  /\ GridStore(set_num_cols(Grid, num_columns))
  /\ UNCHANGED notGridVars

GridUpdateHeightWidth(h, w) ==
  /\ GridStore(update_grid_height_width(Grid, h, w))
  /\ UNCHANGED notGridVars

GridNext ==
  \/ \E num_rows \in 1 .. MaxCount : GridSetNumRows(num_rows)
  \/ \E num_columns \in 1 .. MaxCount : GridSetNumCols(num_columns)
  \/ \E h \in GridSizes, w \in GridSizes : GridUpdateHeightWidth(h, w)

(***************************************************************************)
(* The calls on a slider.                                                  *)
(***************************************************************************)
\* Store the slider after a call.
SliderStore(S, moved) ==
  /\ s_min_val' = S.min_val
  /\ s_max_val' = S.max_val
  /\ s_cur_val' = S.cur_val
  /\ s_step' = S.step
  /\ s_err' = S.err
  /\ s_moved' = moved

\* SliderImplementation.__init__; when it raises there is no slider to call.
SliderInit ==
  \E min_val \in SliderMins, max_val \in SliderMaxs, init_val \in SliderInits,
     step \in SliderSteps :
    LET S == slider_init(min_val, max_val, init_val, step)
    IN /\ s_min_val = S.min_val
       /\ s_max_val = S.max_val
       /\ s_cur_val = S.cur_val
       /\ s_step = S.step
       /\ s_err = S.err
       /\ s_moved = FALSE
       \* the container, the list, the text block and a grid, not used here
       /\ ids = << >>
       /\ widgets = << >>
       /\ selected_widget = None
       /\ in_focused_mode = FALSE
       /\ gui_height = InitSize[1]
       /\ gui_width = InitSize[2]
       /\ height = InitSize[1] - top_padding - bottom_padding - 2
       /\ width = InitSize[2] - left_padding - right_padding
       /\ row_height = 0
       /\ col_width = 0
       /\ offset_x = 0
       /\ offset_y = 0
       /\ loop = "init"
       /\ err = ""
       /\ warned = FALSE
       /\ delivered = << >>
       /\ ctor_err = ""
       /\ view_items = << >>
       /\ selected_item = 0 /\ top_view = 0 /\ bottom_view = 0
       /\ footer = << >>
       /\ m_start_y = 0 /\ m_height = 0 /\ m_pady = 0
       /\ m_err = "" /\ m_rendered = FALSE /\ m_op = ""
       /\ m_checkbox = FALSE /\ selected_item_dict = EmptyDict
       /\ text_lines = << << >> >>
       /\ viewport_y_start = 0 /\ viewport_x_start = 0
       /\ cursor_text_pos_x = 0 /\ cursor_text_pos_y = 0
       /\ cursor_x = 0 /\ cursor_y = 0
       /\ cursor_max_up = 0 /\ cursor_max_down = 0
       /\ cursor_max_left = 0 /\ cursor_max_right = 0
       /\ viewport_width = 0 /\ viewport_height = 0
       /\ typed = None
       /\ g_num_rows = 1 /\ g_num_columns = 1
       /\ g_height = 4 /\ g_width = 4
       /\ g_row_height = 4 /\ g_column_width = 4
       /\ g_offset_x = 0 /\ g_offset_y = 0
       /\ g_err = ""
       /\ box = TextBoxImplementation(<< >>, FALSE)
       /\ box_twin = TextBoxImplementation(<< >>, TRUE)
       /\ box_render = << >> /\ box_twin_render = << >> /\ box_op = ""

SliderUpdateValue(offset) ==
  /\ s_err = ""
  /\ SliderStore(update_slider_value(Slider, offset), TRUE)
  /\ UNCHANGED notSliderVars

SliderSetStep(step) ==
  /\ s_err = ""
  /\ SliderStore(set_slider_step(Slider, step), s_moved)
  /\ UNCHANGED notSliderVars

SliderNext ==
  \/ \E offset \in SliderOffsets : SliderUpdateValue(offset)
  \/ \E step \in SliderSteps : SliderSetStep(step)

(***************************************************************************)
(* The calls on a text box.                                                *)
(***************************************************************************)
\* The lengths and cursor values the model follows: backspace at the left
\* edge and End on a long text move cursor_x without limit.
BoxBounded(B) ==
  /\ Len(B.text) <= MaxBoxChars
  /\ B.cursor_text_pos \in (0 - MaxBoxChars) .. (2 * MaxBoxChars)
  /\ B.cursor_x \in (B.cursor_max_left - MaxBoxChars) ..
                    (B.cursor_max_left + 2 * MaxBoxChars)

\* Store the text box and its twin after the same call on both.
BoxStore(B, T, op) ==
  /\ BoxBounded(B)
  /\ BoxBounded(T)
  /\ box' = B
  /\ box_twin' = T
  /\ box_op' = op

\* TextBox.__init__: TextBoxImplementation.__init__ with an initial text and
\* a password flag, then update_height_width.  The twin gets the other flag.
BoxInit ==
  \E text \in BoxTexts, password \in BOOLEAN, g \in BoxGeometries :
    /\ box = box_update_height_width(TextBoxImplementation(text, password), g)
    /\ box_twin =
         box_update_height_width(TextBoxImplementation(text, ~ password), g)
    /\ box_render = << >>
    /\ box_twin_render = << >>
    /\ box_op = ""
    \* the container, the list, the text block, a grid and a slider, not used
    \* here, as constructed
    /\ ids = << >>
    /\ widgets = << >>
    /\ selected_widget = None
    /\ in_focused_mode = FALSE
    /\ gui_height = InitSize[1]
    /\ gui_width = InitSize[2]
    /\ height = InitSize[1] - top_padding - bottom_padding - 2
    /\ width = InitSize[2] - left_padding - right_padding
    /\ row_height = 0
    /\ col_width = 0
    /\ offset_x = 0
    /\ offset_y = 0
    /\ loop = "init"
    /\ err = ""
    /\ warned = FALSE
    /\ delivered = << >>
    /\ ctor_err = ""
    /\ view_items = << >>
    /\ selected_item = 0 /\ top_view = 0 /\ bottom_view = 0
    /\ footer = << >>
    /\ m_start_y = 0 /\ m_height = 0 /\ m_pady = 0
    /\ m_err = "" /\ m_rendered = FALSE /\ m_op = ""
    /\ m_checkbox = FALSE /\ selected_item_dict = EmptyDict
    /\ text_lines = << << >> >>
    /\ viewport_y_start = 0 /\ viewport_x_start = 0
    /\ cursor_text_pos_x = 0 /\ cursor_text_pos_y = 0
    /\ cursor_x = 0 /\ cursor_y = 0
    /\ cursor_max_up = 0 /\ cursor_max_down = 0
    /\ cursor_max_left = 0 /\ cursor_max_right = 0
    /\ viewport_width = 0 /\ viewport_height = 0
    /\ typed = None
    /\ g_num_rows = 1 /\ g_num_columns = 1
    /\ g_height = 4 /\ g_width = 4
    /\ g_row_height = 4 /\ g_column_width = 4
    /\ g_offset_x = 0 /\ g_offset_y = 0
    /\ g_err = ""
    /\ s_min_val = 0 /\ s_max_val = 100 /\ s_cur_val = 50 /\ s_step = 1
    /\ s_err = "" /\ s_moved = FALSE

\* A key delivered to the focused text box.
BoxKeyPress(key) ==
  /\ BoxStore(box_handle_key_press(box, key),
              box_handle_key_press(box_twin, key), "_handle_key_press")
  /\ box_render' = << >>
  /\ box_twin_render' = << >>
  /\ UNCHANGED notBoxVars

\* A click delivered to the text box.
BoxMousePress(x, y) ==
  /\ BoxStore(box_handle_mouse_press(box, x, y),
              box_handle_mouse_press(box_twin, x, y), "_handle_mouse_press")
  /\ box_render' = << >>
  /\ box_twin_render' = << >>
  /\ UNCHANGED notBoxVars

BoxSetText(text) ==
  /\ BoxStore(box_set_text(box, text), box_set_text(box_twin, text), "set_text")
  /\ box_render' = << >>
  /\ box_twin_render' = << >>
  /\ UNCHANGED notBoxVars

BoxClear ==
  /\ BoxStore(box_clear(box), box_clear(box_twin), "clear")
  /\ box_render' = << >>
  /\ box_twin_render' = << >>
  /\ UNCHANGED notBoxVars

\* A resize gives the text box another position and size.
BoxResize(g) ==
  /\ g[4] # box.width
  /\ BoxStore(box_update_height_width(box, g),
              box_update_height_width(box_twin, g), "update_height_width")
  /\ box_render' = << >>
  /\ box_twin_render' = << >>
  /\ UNCHANGED notBoxVars

\* The render pass of the main loop.
BoxDraw ==
  /\ BoxStore(box, box_twin, "_draw")
  /\ box_render' = box_render_text(box)
  /\ box_twin_render' = box_render_text(box_twin)
  /\ UNCHANGED notBoxVars

BoxNext ==
  \/ \E key \in BoxKeys : BoxKeyPress(key)
  \/ \E p \in BoxClicks : BoxMousePress(p[1], p[2])
  \/ \E text \in BoxTexts : BoxSetText(text)
  \/ BoxClear
  \/ \E g \in BoxGeometries : BoxResize(g)
  \/ BoxDraw

(***************************************************************************)
(* Specifications: one per component, the other components as constructed. *)
(***************************************************************************)
vars == << focusVars, menuVars, textVars, gridVars, sliderVars, boxVars >>

SpecFocus == FocusInit /\ [][FocusNext]_vars

SpecMenu == MenuInit /\ [][MenuNext]_vars

SpecText == TextInit /\ [][TextNext]_vars

SpecGrid == GridInit /\ [][GridNext]_vars

SpecSlider == SliderInit /\ [][SliderNext]_vars

SpecBox == BoxInit /\ [][BoxNext]_vars

(***************************************************************************)
(* Focus and selection.                                                    *)
(***************************************************************************)
\* C1: while the main loop runs, a container in focused mode has a selected
\* widget, and that widget is selectable.
C1_FocusedWidgetIsSelectable ==
  (loop = "running" /\ in_focused_mode) =>
    /\ selected_widget \in DOMAIN widgets
    /\ widgets[selected_widget].selectable

\* C2: while the main loop runs, every widget with its hovering or its focused
\* flag set is the selected widget, so at most one widget has such a flag.
C2_OnlySelectedWidgetIsFlagged ==
  loop = "running" =>
    \A id \in DOMAIN widgets :
      (widgets[id].hovering \/ widgets[id].focused) => id = selected_widget

\* C3: a pass of the main loop that starts in focused mode with a key other
\* than Escape delivers the key to the focused widget's handler and leaves the
\* selected widget and focused mode as they were; with Escape it leaves
\* focused mode and the same widget is selected and hovered.
C3_FocusedKeysGoToTheFocusedWidget ==
  [][\A key \in Keys :
       (in_focused_mode /\ KeyPress(key)) =>
         IF key = KEY_ESCAPE
         THEN /\ ~ in_focused_mode'
              /\ selected_widget' = selected_widget
              /\ widgets'[selected_widget].hovering
         ELSE /\ delivered' = << selected_widget, key >>
              /\ selected_widget' = selected_widget
              /\ in_focused_mode']_vars

(***************************************************************************)
(* The list viewport.                                                      *)
(***************************************************************************)
\* C4: after any call that did not raise, a list with items has
\* 0 <= selected_item < the number of items.
C4_SelectedItemInRange ==
  (m_err = "" /\ Len(view_items) > 0) =>
    (0 <= selected_item /\ selected_item < Len(view_items))

\* C5: right after a render pass of a list with items,
\* top_view <= selected_item <= bottom_view.
C5_SelectedItemVisibleAfterRender ==
  (m_rendered /\ Len(view_items) > 0) =>
    (top_view <= selected_item /\ selected_item <= bottom_view)

(***************************************************************************)
(* The multi-line text block.                                              *)
(***************************************************************************)
\* C6: the text block always has at least one line, the cursor's line index
\* is that of an existing line, and the cursor's column is between 0 and the
\* length of that line.
C6_CursorInsideText ==
  /\ Len(text_lines) >= 1
  /\ 0 <= cursor_text_pos_y /\ cursor_text_pos_y < Len(text_lines)
  /\ 0 <= cursor_text_pos_x
  /\ cursor_text_pos_x <= Len(text_lines[cursor_text_pos_y + 1])

\* C7: the screen cursor stays inside the movement bounds:
\* cursor_max_left <= cursor_x <= cursor_max_right and
\* cursor_max_up <= cursor_y <= cursor_max_down.
C7_ScreenCursorInsideBounds ==
  /\ cursor_max_left <= cursor_x /\ cursor_x <= cursor_max_right
  /\ cursor_max_up <= cursor_y /\ cursor_y <= cursor_max_down

\* C8: after k characters were typed at the end of a line that was empty, with
\* a viewport W columns wide, viewport_x_start = max(0, k - W) and
\* cursor_x = cursor_max_left + min(k, W).
C8_TypingScrollsHorizontally ==
  typed # None =>
    /\ viewport_x_start = Max(0, typed - viewport_width)
    /\ cursor_x = cursor_max_left + Min(typed, viewport_width)

\* C9: for every text t, get() right after set_text(t) returns exactly t.
C9_SetTextGetRoundTrip ==
  \A text \in Texts : get(set_text(TextBlock, text)) = text

\* C10: a newline followed at once by a backspace leaves the lines and the
\* cursor's text position as they were before the newline.
C10_NewlineThenBackspaceRestores ==
  LET T == handle_backspace(handle_newline(TextBlock))
  IN /\ T.text_lines = text_lines
     /\ T.cursor_text_pos_x = cursor_text_pos_x
     /\ T.cursor_text_pos_y = cursor_text_pos_y

(***************************************************************************)
(* Geometry.                                                               *)
(***************************************************************************)
\* C11: whenever 3*rows < height and 3*columns < width, the geometry a grid
\* holds, and the geometry the grid layout computes for any size, satisfy
\* row_height*rows <= height, col_width*columns <= width,
\* offset_x < col_width and offset_y < row_height.
C11_CellsFitAndOffsetsAreSmall ==
  /\ (3 * g_num_rows < g_height /\ 3 * g_num_columns < g_width) =>
       /\ g_row_height * g_num_rows <= g_height
       /\ g_column_width * g_num_columns <= g_width
       /\ g_offset_x < g_column_width
       /\ g_offset_y < g_row_height
  /\ \A h \in GridSizes, w \in GridSizes :
       (3 * NumRows < h /\ 3 * NumCols < w) =>
         LET L == layout_refresh_height_width(Container, h, w)
         IN /\ L.err = ""
            /\ L.row_height * NumRows <= h
            /\ L.col_width * NumCols <= w
            /\ L.offset_x < L.col_width
            /\ L.offset_y < L.row_height

\* A grid whose last recompute succeeded and left a non-zero offset.
C11_Witness ==
  /\ 3 * g_num_rows < g_height /\ 3 * g_num_columns < g_width
  /\ g_num_rows > 1
  /\ g_offset_y >= 1

\* C12: a recompute that reports the too-small error leaves the stored
\* height and width, the row and column counts, the cell sizes and the
\* offsets as they were before the call.
C12_FailedRecomputeChangesNothing ==
  [][g_err' # "" =>
       UNCHANGED << g_num_rows, g_num_columns, g_height, g_width,
                    g_row_height, g_column_width, g_offset_x, g_offset_y >>]_vars

(***************************************************************************)
(* Errors of the container, and its navigation.                            *)
(***************************************************************************)
\* The layout's minimum-cell rule fails for a terminal of this size.
TooSmall(size) ==
  \/ 3 * NumCols >= size[2] - left_padding - right_padding
  \/ 3 * NumRows >= size[1] - top_padding - bottom_padding - 2

\* C13: a resize received while the main loop runs never ends the loop; to a
\* size that violates the minimum-cell rule it displays the warning and
\* leaves the loop running, and to a valid size it recomputes the geometry.
C13_ResizeNeverEndsTheLoop ==
  [][\A size \in TermSizes :
       (loop = "running" /\ Resize(size)) =>
         /\ loop' = "running"
         /\ IF TooSmall(size)
            THEN warned'
            ELSE /\ ~ warned'
                 /\ height' = size[1] - top_padding - bottom_padding - 2
                 /\ width' = size[2] - left_padding - right_padding
                 /\ row_height' = height' \div NumRows
                 /\ col_width' = width' \div NumCols]_vars

\* The loop runs, showing the warning, after a resize to a too-small size.
C13_Witness ==
  /\ loop = "running"
  /\ warned
  /\ TooSmall(<< gui_height, gui_width >>)

RECURSIVE FirstSelectableFrom(_)
FirstSelectableFrom(i) ==
  IF i > Len(ids) THEN None
  ELSE IF widgets[ids[i]].selectable THEN ids[i]
  ELSE FirstSelectableFrom(i + 1)

\* C16: before the loop starts the container is in Overview, the selected
\* widget is the first selectable widget in insertion order, or none when no
\* widget is selectable, and it alone has the hovering flag.
C16_InitiallyHoversFirstSelectable ==
  loop = "init" =>
    /\ ~ in_focused_mode
    /\ selected_widget = FirstSelectableFrom(1)
    /\ \A id \in DOMAIN widgets : widgets[id].hovering <=> id = selected_widget

\* Before the loop starts, a non-selectable widget was added first and a
\* selectable one after it, which is hovered.
C16_Witness ==
  /\ loop = "init"
  /\ Len(ids) >= 2
  /\ ~ widgets[ids[1]].selectable
  /\ selected_widget = ids[2]

\* No two widgets of the container share a grid cell.
Disjoint ==
  \A a \in DOMAIN widgets, b \in DOMAIN widgets :
    a # b =>
      \/ widgets[a].row + widgets[a].row_span <= widgets[b].row
      \/ widgets[b].row + widgets[b].row_span <= widgets[a].row
      \/ widgets[a].col + widgets[a].col_span <= widgets[b].col
      \/ widgets[b].col + widgets[b].col_span <= widgets[a].col

\* The widgets that start at or below the bottom edge of the selected widget
\* and whose column range meets its column range.
BelowSelected ==
  LET W == widgets[selected_widget]
  IN { id \in DOMAIN widgets :
         /\ widgets[id].row >= W.row + W.row_span
         /\ widgets[id].col < W.col + W.col_span
         /\ W.col < widgets[id].col + widgets[id].col_span }

\* C17: with widgets on pairwise disjoint cells, the search downwards from
\* the selected widget returns a widget that starts at or below its bottom
\* edge and meets its column range, and returns none when there is no such
\* widget.
C17_DownNeighborIsBelow ==
  (selected_widget \in DOMAIN widgets /\ Disjoint) =>
    LET n == get_neighbor(Container, KEY_DOWN_ARROW)
    IN IF BelowSelected = {} THEN n = None ELSE n \in BelowSelected

\* Disjoint widgets, the selected one with a widget below it.
C17_Witness ==
  /\ loop = "running"
  /\ selected_widget \in DOMAIN widgets
  /\ Disjoint
  /\ BelowSelected # {}
  /\ get_neighbor(Container, KEY_DOWN_ARROW) \in BelowSelected

\* No widget other than the selected one covers a cell of the rows (for a
\* vertical key) or columns (for a horizontal key) of the grid that lie beyond
\* the selected widget in the key's direction, within its column or row range.
NothingBeyond(key) ==
  LET W == widgets[selected_widget]
      rows == IF key = KEY_UP_ARROW THEN 0 .. W.row - 1
              ELSE IF key = KEY_DOWN_ARROW THEN W.row + W.row_span .. NumRows - 1
              ELSE W.row .. W.row + W.row_span - 1
      cols == IF key = KEY_LEFT_ARROW THEN 0 .. W.col - 1
              ELSE IF key = KEY_RIGHT_ARROW THEN W.col + W.col_span .. NumCols - 1
              ELSE W.col .. W.col + W.col_span - 1
  IN \A id \in DOMAIN widgets, r \in rows, c \in cols :
       ~ ( /\ widgets[id].row <= r /\ r < widgets[id].row + widgets[id].row_span
           /\ widgets[id].col <= c /\ c < widgets[id].col + widgets[id].col_span )

\* C18: in Overview, an arrow key with no widget beyond the selected one in
\* its direction leaves the selected widget, the focus mode and every
\* widget's hovering flag as they were; the hover does not wrap around.
C18_NoNeighborNoMove ==
  [][\A key \in ARROW_KEYS :
       ( /\ ~ in_focused_mode
         /\ selected_widget \in DOMAIN widgets
         /\ NothingBeyond(key)
         /\ KeyPress(key) ) =>
         /\ selected_widget' = selected_widget
         /\ ~ in_focused_mode'
         /\ \A id \in DOMAIN widgets :
              widgets'[id].hovering = widgets[id].hovering]_vars

\* In Overview, with two widgets, the selected one at the bottom edge of the
\* grid with a widget above it, and the last key delivered nowhere.
C18_Witness ==
  /\ loop = "running"
  /\ ~ in_focused_mode
  /\ Len(ids) >= 2
  /\ selected_widget \in DOMAIN widgets
  /\ NothingBeyond(KEY_DOWN_ARROW)
  /\ ~ NothingBeyond(KEY_UP_ARROW)
  /\ delivered = << >>

\* C19: with n widgets and the selected one at insertion position i, the
\* forward cycle key selects and hovers the widget at position (i+1) mod n
\* and the reverse cycle key the one at position (i-1) mod n.
C19_CycleFollowsInsertionOrder ==
  [][\A key \in { forward_cycle_key, reverse_cycle_key } :
       (selected_widget \in DOMAIN widgets /\ KeyPress(key)) =>
         LET n == Len(ids)
             i == IndexOf(ids, selected_widget)
             j == IF key = forward_cycle_key THEN (i + 1) % n
                  ELSE (i - 1 + n) % n
         IN /\ selected_widget' = ids[j + 1]
            /\ widgets'[ids[j + 1]].hovering]_vars

\* The forward cycle key was just delivered to the first widget of three: it
\* wrapped around from the last one.
C19_Witness ==
  /\ loop = "running"
  /\ Len(ids) = 3
  /\ selected_widget = ids[1]
  /\ delivered = << ids[1], forward_cycle_key >>

\* C20: in Overview, Enter on a selected widget that is selectable enters
\* focused mode on that widget; on one that is not selectable it stays in
\* Overview and delivers Enter to the widget's own key handler.
C20_EnterFocusesSelectable ==
  [][( /\ ~ in_focused_mode
       /\ selected_widget \in DOMAIN widgets
       /\ KeyPress(KEY_ENTER) ) =>
       /\ selected_widget' = selected_widget
       /\ IF widgets[selected_widget].selectable
          THEN /\ in_focused_mode'
               /\ widgets'[selected_widget].focused
               /\ delivered' = << >>
          ELSE /\ ~ in_focused_mode'
               /\ delivered' = << selected_widget, KEY_ENTER >>]_vars

\* Enter was just delivered to a non-selectable widget, in Overview.
C20_Witness ==
  /\ loop = "running"
  /\ ~ in_focused_mode
  /\ selected_widget \in DOMAIN widgets
  /\ ~ widgets[selected_widget].selectable
  /\ delivered = << selected_widget, KEY_ENTER >>

(***************************************************************************)
(* The slider.                                                             *)
(***************************************************************************)
\* C15: a slider that was constructed has min_val <= cur_val <= max_val in
\* every state, and the constructor raises InvalidValue exactly when the
\* initial value is outside that range.
C15_SliderValueInRange ==
  /\ s_err = "" => (s_min_val <= s_cur_val /\ s_cur_val <= s_max_val)
  /\ s_err # "" =>
       /\ s_err = "PyCUIInvalidValue"
       /\ (s_cur_val < s_min_val \/ s_cur_val > s_max_val)

\* update_slider_value has moved the value to the upper end of the range.
C15_Witness ==
  /\ s_err = ""
  /\ s_moved
  /\ s_cur_val = s_max_val

(***************************************************************************)
(* Mouse clicks on the container.                                          *)
(***************************************************************************)
\* C21: while the loop runs, the mouse branch of a pass, for a click inside
\* the focused widget, hands the click to that widget's mouse handler and
\* leaves the selected widget and the mode as they were; for a click inside
\* any other widget it makes that widget the selected widget and then hands
\* the click to its mouse handler.
C21_ClickSelectsThenDelivers ==
  loop = "running" =>
    \A p \in ClickPoints :
      LET in_element == get_element_at_position(Container, p[1], p[2])
          R == handle_mouse(Container, p[1], p[2])
      IN in_element # None =>
           /\ R.err = ""
           /\ R.delivered = << in_element, p[1], p[2] >>
           /\ IF is_focused(Container, in_element)
              THEN /\ R.selected_widget = selected_widget
                   /\ R.in_focused_mode = in_focused_mode
              ELSE R.selected_widget = in_element

(***************************************************************************)
(* Removing items of a list.                                               *)
(***************************************************************************)
\* C22: for a list of n >= 1 items whose selected index s is an index of the
\* list (0 <= s < n), remove_selected_item does not raise, removes the item
\* at s and keeps the others in order, and leaves selected = s when
\* s < n - 1 and max(s - 1, 0) otherwise; when n = 1 the list is then empty,
\* get() gives None and the position label is the empty string.
C22_RemoveSelectedItem ==
  LET n == Len(view_items)
      s == selected_item
      R == remove_selected_item(Menu)
  IN (m_err = "" /\ n >= 1 /\ 0 <= s /\ s < n) =>
       /\ R.err = ""
       /\ R.view_items = SubSeq(view_items, 1, s) \o SubSeq(view_items, s + 2, n)
       /\ R.selected_item = IF s < n - 1 THEN s ELSE Max(s - 1, 0)
       /\ n = 1 =>
            /\ R.view_items = << >>
            /\ menu_get(R) = None
            /\ R.footer = << >>

\* remove_selected_item has removed an item of a plain list of three; the
\* second of the two items left is selected.
C22_Witness ==
  /\ m_op = "remove_selected_item"
  /\ m_err = ""
  /\ ~ m_checkbox
  /\ Len(view_items) = 2
  /\ selected_item = 1
  /\ footer = << 2, 2 >>

\* C23: from every state of a list that a sequence of calls reaches,
\* clear_items ends without an exception and leaves the list empty, for the
\* plain list and for the checkbox list.
C23_ClearItemsEmptiesTheList ==
  m_err = "" =>
    LET R == clear_items(Menu)
    IN R.err = "" /\ R.view_items = << >>

(***************************************************************************)
(* The position label of a list.                                           *)
(***************************************************************************)
\* The calls that change the items or the selection of a list.
ListChangingOps ==
  { "add_item", "remove_selected_item", "remove_item", "clear", "clear_items",
    "set_selected_item_index", "_handle_key_press", "_handle_mouse_press" }

\* C24: after a call that changes the items or the selection and did not
\* raise, the position label is '<selected + 1>/<length>' for a list with
\* items and the empty string for an empty list.
C24_FooterShowsPosition ==
  (m_err = "" /\ m_op \in ListChangingOps) =>
    footer = IF Len(view_items) > 0
             THEN << selected_item + 1, Len(view_items) >>
             ELSE << >>

(***************************************************************************)
(* The single-line text box.                                               *)
(***************************************************************************)
\* C25: after any sequence of calls on a text box (a character, backspace,
\* delete, left, right, Home, End, a click, set_text, clear),
\* 0 <= cursor_text_pos <= the length of the text and
\* cursor_max_left <= cursor_x <= cursor_max_right.
C25_BoxCursorInsideTextAndBox ==
  /\ 0 <= box.cursor_text_pos
  /\ box.cursor_text_pos <= Len(box.text)
  /\ box.cursor_max_left <= box.cursor_x
  /\ box.cursor_x <= box.cursor_max_right

\* Of a text box and its twin, the one built without and the one built with
\* the password flag, and what _draw rendered for each.
PlainBox == IF box.password THEN box_twin ELSE box

MaskedBox == IF box.password THEN box ELSE box_twin

PlainRender == IF box.password THEN box_twin_render ELSE box_render

MaskedRender == IF box.password THEN box_render ELSE box_twin_render

\* C26: two text boxes that differ only in the password flag and receive the
\* same sequence of calls have the same stored text, the same cursor state
\* and the same get() value; what _draw renders for the password box is the
\* other box's rendered text with every character replaced by '*'.
C26_PasswordOnlyMasksTheRendering ==
  /\ MaskedBox = [PlainBox EXCEPT !.password = TRUE]
  /\ ~ PlainBox.password
  /\ box_get(MaskedBox) = box_get(PlainBox)
  /\ Len(MaskedRender) = Len(PlainRender)
  /\ \A i \in 1 .. Len(MaskedRender) : MaskedRender[i] = "*"

\* After some calls that moved the cursor into a text, a render pass has
\* drawn the text for one box and stars for its twin.
C26_Witness ==
  /\ box_op = "_draw"
  /\ box.cursor_text_pos > 0
  /\ Len(PlainRender) > 0
  /\ \A i \in 1 .. Len(PlainRender) : PlainRender[i] # "*"
  /\ MaskedRender # PlainRender

(***************************************************************************)
(* The stored bounds of the widgets.                                       *)
(***************************************************************************)
\* What GridLayout._refresh_height_width stores in a widget.
Bounds(w) == << w.start_x, w.start_y, w.stop_x, w.stop_y, w.w_height, w.w_width >>

DrawnPass ==
  /\ loop' = "running"
  /\ \/ \E key \in Keys : KeyPress(key)
     \/ \E p \in ClickPoints : MouseClick(p[1], p[2])
     \/ \E size \in TermSizes : Resize(size)

\* C28: at the draw step of every pass of the loop, every widget of the
\* container, one added after the last resize included, has the stored
\* bounds that the container's stored height, width and grid geometry give.
C28_DrawnBoundsAreCurrent ==
  [][DrawnPass =>
       \A id \in DOMAIN widgets' :
         Bounds(widgets'[id]) = Bounds(place_widget(Container', widgets'[id]))]_vars

(***************************************************************************)
(* Offsets and widget bounds.                                              *)
(***************************************************************************)
\* C29: after a recompute that succeeded, offset_x is
\* floor((width - columns * column_width) / 2) and offset_y is
\* floor((height - rows * row_height) / 2), in the Grid and in the
\* GridLayout: the space the cells leave over is split evenly.
C29_OffsetsSplitTheLeftover ==
  /\ (g_err = "" /\ 3 * g_num_rows < g_height /\ 3 * g_num_columns < g_width) =>
       /\ g_offset_x = (g_width - g_num_columns * g_column_width) \div 2
       /\ g_offset_y = (g_height - g_num_rows * g_row_height) \div 2
  /\ \A h \in GridSizes, w \in GridSizes :
       (3 * NumRows < h /\ 3 * NumCols < w) =>
         LET L == layout_refresh_height_width(Container, h, w)
         IN /\ L.offset_x = (w - NumCols * L.col_width) \div 2
            /\ L.offset_y = (h - NumRows * L.row_height) \div 2

\* C30: for every widget of the container and every valid height and width,
\* the recompute stores, on each axis, the container's edge as the stop of a
\* widget with snap_border whose span reaches the last column (row), and
\* otherwise stop = start + span * cell size - 1 for the start it stored for
\* that widget, a start snapped to the first column (row) included.
C30_StopFollowsStart ==
  \A h \in GridSizes, w \in GridSizes :
    (3 * NumRows < h /\ 3 * NumCols < w) =>
      LET L == layout_refresh_height_width(Container, h, w)
      IN \A id \in DOMAIN L.widgets :
           LET v == L.widgets[id]
           IN /\ v.stop_x =
                   IF v.col + v.col_span = NumCols /\ v.snap_border
                   THEN w + left_padding - 1
                   ELSE v.start_x + v.col_span * L.col_width - 1
              /\ v.stop_y =
                   IF v.row + v.row_span = NumRows /\ v.snap_border
                   THEN h + top_padding
                   ELSE v.start_y + v.row_span * L.row_height - 1

\* Widget id covers the grid cell (r, c).
Covers(id, r, c) ==
  /\ widgets[id].row <= r /\ r < widgets[id].row + widgets[id].row_span
  /\ widgets[id].col <= c /\ c < widgets[id].col + widgets[id].col_span

\* The rows (for a vertical key) or columns (for a horizontal key) of the
\* grid that lie beyond the selected widget in the key's direction.
LinesBeyond(key) ==
  LET W == widgets[selected_widget]
  IN IF key = KEY_UP_ARROW THEN 0 .. W.row - 1
     ELSE IF key = KEY_DOWN_ARROW THEN W.row + W.row_span .. NumRows - 1
     ELSE IF key = KEY_LEFT_ARROW THEN 0 .. W.col - 1
     ELSE W.col + W.col_span .. NumCols - 1

\* The cells of row or column `line` that lie inside the band of the selected
\* widget: its column range for a vertical key, its row range for a
\* horizontal key.
BandCells(key, line) ==
  LET W == widgets[selected_widget]
  IN IF key \in { KEY_UP_ARROW, KEY_DOWN_ARROW }
     THEN { << line, c >> : c \in W.col .. W.col + W.col_span - 1 }
     ELSE { << r, line >> : r \in W.row .. W.row + W.row_span - 1 }

\* The lines beyond the selected widget that hold a widget cell in the band.
HeldLines(key) ==
  { line \in LinesBeyond(key) :
      \E id \in DOMAIN widgets, cell \in BandCells(key, line) :
        Covers(id, cell[1], cell[2]) }

\* The held line closest to the selected widget.
ClosestLine(key) ==
  IF key \in { KEY_UP_ARROW, KEY_LEFT_ARROW }
  THEN CHOOSE l \in HeldLines(key) : \A m \in HeldLines(key) : m <= l
  ELSE CHOOSE l \in HeldLines(key) : \A m \in HeldLines(key) : l <= m

Dist(a, b) == IF a < b THEN b - a ELSE a - b

\* C32: one move left, right, up or down changes the viewport offset of its
\* axis by at most one, and only when the screen cursor is at the bound in
\* the direction of the move; the offset of the other axis never changes.
C32_MovesScrollOnlyAtTheBound ==
  LET T == TextBlock
      l == move_left(T)
      r == move_right(T)
      u == move_up(T)
      d == move_down(T)
  IN /\ Dist(l.viewport_x_start, T.viewport_x_start) <= 1
     /\ l.viewport_x_start # T.viewport_x_start => T.cursor_x = T.cursor_max_left
     /\ l.viewport_y_start = T.viewport_y_start
     /\ Dist(r.viewport_x_start, T.viewport_x_start) <= 1
     /\ r.viewport_x_start # T.viewport_x_start => T.cursor_x = T.cursor_max_right
     /\ r.viewport_y_start = T.viewport_y_start
     /\ Dist(u.viewport_y_start, T.viewport_y_start) <= 1
     /\ u.viewport_y_start # T.viewport_y_start => T.cursor_y = T.cursor_max_up
     /\ u.viewport_x_start = T.viewport_x_start
     /\ Dist(d.viewport_y_start, T.viewport_y_start) <= 1
     /\ d.viewport_y_start # T.viewport_y_start => T.cursor_y = T.cursor_max_down
     /\ d.viewport_x_start = T.viewport_x_start

\* C33: End puts the column at the length n of the current line, the
\* horizontal offset at max(0, n - viewport_width) and the screen cursor at
\* cursor_max_left + n - offset; Home puts the column at 0, the offset at 0
\* and the screen cursor at cursor_max_left.
C33_HomeAndEnd ==
  LET T == TextBlock
      n == Len(get_current_line(T))
      e == handle_end(T)
      h == handle_home(T)
  IN /\ e.cursor_text_pos_x = n
     /\ e.viewport_x_start = Max(0, n - T.viewport_width)
     /\ e.cursor_x = T.cursor_max_left + n - e.viewport_x_start
     /\ h.cursor_text_pos_x = 0
     /\ h.viewport_x_start = 0
     /\ h.cursor_x = T.cursor_max_left

\* C34: a mouse click at (x, y) inside the viewport puts the cursor line at
\* min(y - cursor_max_up + viewport_y_start, last line index) and the cursor
\* column at min(x - cursor_max_left + viewport_x_start, length of that line).
C34_ClickSetsTheTextPosition ==
  LET T == TextBlock
  IN \A x \in cursor_max_left .. cursor_max_right,
        y \in cursor_max_up .. cursor_max_down :
       LET c == text_handle_mouse_press(T, x, y)
           line == Min(y - cursor_max_up + viewport_y_start, Len(text_lines) - 1)
       IN /\ c.cursor_text_pos_y = line
          /\ c.cursor_text_pos_x =
               Min(x - cursor_max_left + viewport_x_start, Len(text_lines[line + 1]))

\* C36: the screen cursor shows the text position under the scroll offsets:
\* cursor_x - cursor_max_left = cursor_text_pos_x - viewport_x_start and
\* cursor_y - cursor_max_up = cursor_text_pos_y - viewport_y_start.
C36_ScreenCursorShowsTextPosition ==
  /\ cursor_x - cursor_max_left = cursor_text_pos_x - viewport_x_start
  /\ cursor_y - cursor_max_up = cursor_text_pos_y - viewport_y_start

CellsApart(a, b) ==
  \/ a.row + a.row_span <= b.row
  \/ b.row + b.row_span <= a.row
  \/ a.col + a.col_span <= b.col
  \/ b.col + b.col_span <= a.col

\* The rectangles [start_x, stop_x] x [start_y, stop_y] of a and b are disjoint.
RectsApart(a, b) ==
  \/ a.stop_x < b.start_x
  \/ b.stop_x < a.start_x
  \/ a.stop_y < b.start_y
  \/ b.stop_y < a.start_y

\* The heights and widths of the container that satisfy the minimum-cell rule.
ValidSize(h, w) == 3 * NumRows < h /\ 3 * NumCols < w

\* (height, width) pairs given to the recompute of the container; they
\* cover every height and every width of GridSizes that is valid for the grid.
LayoutSizes == { <<10, 7>>, <<11, 10>>, <<15, 11>>, <<11, 15>> }

\* C37: for valid heights and widths, the recompute gives two widgets of
\* the container that occupy disjoint grid cells disjoint rectangles
\* [start_x, stop_x] x [start_y, stop_y], with the snap_border settings they
\* have and with every other combination of the two settings.
C37_DisjointCellsDisjointRectangles ==
  \A a \in DOMAIN widgets, b \in DOMAIN widgets :
    (a < b /\ CellsApart(widgets[a], widgets[b])) =>
      \A size \in LayoutSizes :
        ValidSize(size[1], size[2]) =>
          \A L \in { layout_refresh_height_width(Container, size[1], size[2]) } :
            /\ RectsApart(L.widgets[a], L.widgets[b])
            /\ \A sa \in BOOLEAN, sb \in BOOLEAN :
                 \A pa \in { place_widget(L, [widgets[a] EXCEPT !.snap_border = sa]) },
                    pb \in { place_widget(L, [widgets[b] EXCEPT !.snap_border = sb]) } :
                   RectsApart(pa, pb)

\* After a resize that succeeded, the container holds two widgets on disjoint
\* cells of the same row, side by side, with the rectangles the resize stored.
C37_Witness ==
  /\ loop = "running"
  /\ ~ TooSmall(<< gui_height, gui_width >>)
  /\ \E a \in DOMAIN widgets, b \in DOMAIN widgets :
       /\ CellsApart(widgets[a], widgets[b])
       /\ widgets[a].row = widgets[b].row
       /\ widgets[a].col + widgets[a].col_span = widgets[b].col
       /\ widgets[a].w_height > 0 /\ widgets[b].w_height > 0
       /\ widgets[a].stop_x + 1 = widgets[b].start_x

\* The rectangle of widget w lies inside a container of height h and width wd.
InsideContainer(w, h, wd) ==
  /\ w.start_x <= w.stop_x
  /\ w.start_y <= w.stop_y
  /\ left_padding <= w.start_x
  /\ w.stop_x <= left_padding + wd - 1
  /\ top_padding + 1 <= w.start_y
  /\ w.stop_y <= top_padding + h

\* C38: for valid heights and widths, the recompute gives every widget of the
\* container start_x <= stop_x and start_y <= stop_y and a rectangle inside
\* the container's area: left_padding <= start_x,
\* stop_x <= left_padding + width - 1, top_padding + 1 <= start_y and
\* stop_y <= top_padding + height; with snap_border set and with it unset.
C38_RectanglesInsideTheContainer ==
  \A size \in LayoutSizes :
    ValidSize(size[1], size[2]) =>
      \A L \in { layout_refresh_height_width(Container, size[1], size[2]) } :
        \A id \in DOMAIN widgets :
          /\ InsideContainer(L.widgets[id], size[1], size[2])
          /\ \A s \in BOOLEAN :
               \A p \in { place_widget(L, [widgets[id] EXCEPT !.snap_border = s]) } :
                 InsideContainer(p, size[1], size[2])

\* After a resize that succeeded, a widget's stored rectangle starts in the
\* first row of the container's area and another's ends on its last row.
C38_Witness ==
  /\ loop = "running"
  /\ ~ TooSmall(<< gui_height, gui_width >>)
  /\ \E a \in DOMAIN widgets, b \in DOMAIN widgets :
       /\ widgets[a].start_y = top_padding + 1
       /\ widgets[b].stop_y = top_padding + height
       /\ InsideContainer(widgets[a], height, width)
       /\ InsideContainer(widgets[b], height, width)

\* C39: two widgets constructed for the container, in any order with the
\* calls that add them, get distinct ids, and adding the second leaves the
\* first in the container: here both are constructed before either is added.
C39_AddedWidgetsKeepDistinctIds ==
  \A p \in Placements, q \in Placements :
    (FitsGrid(p) /\ FitsGrid(q)) =>
      LET first == NewWidget(get_next_id(Container), p)
          second == NewWidget(get_next_id(Container), q)
          L1 == add_widget(Container, first)
          L2 == add_widget(L1, second)
      IN /\ first.id # second.id
         /\ Len(L2.ids) = Len(ids) + 2
         /\ L2.widgets[first.id] = L1.widgets[first.id]

\* C40: with no widget selected, in Overview, a pass of the loop for any key
\* (an arrow, Enter, Escape, the cycle keys, any other key) raises no error
\* and leaves no widget selected and the mode Overview.
C40_KeysWithoutHoverAreHarmless ==
  (selected_widget = None /\ ~ in_focused_mode /\ err = "") =>
    \A key \in Keys \ { KEY_MOUSE, KEY_RESIZE } :
      LET L == loop_body(Container, key, 0, 0, << gui_height, gui_width >>)
      IN /\ L.err = ""
         /\ L.selected_widget = None
         /\ ~ L.in_focused_mode

====
